---- MODULE Spec2Model ----
(***************************************************************************)
(* Signal Correspondence Tracer (src/aligner/trace_signal.py).             *)
(*                                                                         *)
(* One run of main(): pre-flight checks, the Yosys dump of the miter, the  *)
(* parse of the dump into the gate and gold wire tables, the resolution of *)
(* the requested location to a gate wire, the filtering of the gold        *)
(* candidates, the proof batch and the report.                             *)
(*                                                                         *)
(* Text is modelled as a sequence of tokens; every token stands for a      *)
(* fixed run of characters and no token is part of another one, so that    *)
(* Python's startswith, `in` and == become prefix, contiguous-subsequence  *)
(* and equality tests on token sequences.  None and the empty string, both *)
(* false in a Python condition, are the empty sequence.                    *)
(***************************************************************************)
EXTENDS Integers, Sequences, FiniteSets, TLC

\* ------------------------------------------------------------------ bounds

\* Most wire declarations (with their attribute lines) in one dump.
MaxWires == 3

\* Most lines of backend output read back after a proof batch.
MaxOut == 2

\* Most gold wire declarations in a dump of the candidate-filter family.
MaxGold == 3

\* Most lines in a dump of the parser family.
MaxLines == 4

\* Most signals on a side in the discovery family.
MaxSignals == 3

\* Most lines in a backend output of the test_equivalence family.
MaxEquivLines == 4

\* Most items in an annotation of the reporter family.
MaxItems == 4

\* The pieces of a comment handed to _extract_location.
MaxPieces == 4

\* The lines of a file handed to get_other_modules.
MaxFileLines == 3

\* ------------------------------------------------------------- text helpers

None == <<>>

StartsWith(s, p) ==
    /\ Len(s) >= Len(p)
    /\ SubSeq(s, 1, Len(p)) = p

\* Python's `p in s` for strings.
Contains(s, p) ==
    \E i \in 0..(Len(s) - Len(p)) : SubSeq(s, i + 1, i + Len(p)) = p

\* str.replace(old, ''), old a single token.
Remove(s, tok) == SelectSeq(s, LAMBDA t : t # tok)

DigitChar == <<"0", "1", "2", "3", "4", "5", "6", "7", "8", "9">>

\* The decimal rendering of a natural number in an f-string.
RECURSIVE Digits(_)
Digits(n) ==
    IF n < 10 THEN <<DigitChar[n + 1]>>
    ELSE Digits(n \div 10) \o <<DigitChar[(n % 10) + 1]>>

\* os.path.abspath of the two input files.
GateAbs == <<"/w/", "gate.sv">>
GoldAbs == <<"/w/", "gold.sv">>

\* A Yosys \src attribute value: "<path>:<line>.<col>-<line>.<col>".
SrcAttr(path, line, start_col, end_col) ==
    path \o <<":">> \o Digits(line) \o <<".">> \o Digits(start_col)
         \o <<"-">> \o Digits(line) \o <<".">> \o Digits(end_col)

\* ------------------------------------------------------------------ the dump

\* A line of the RTLIL dump, after strip(): which of the three patterns of
\* parse_dump it matches, and the groups it captures.
\*   src       attribute \src "<val>"
\*   hdlname   attribute \hdlname "<val>"
\*   attribute any other line that starts with `attribute`
\*   wire      wire [width <width>] [input|output <n>] <val>  (width 0: none given)
\*   other     any other line
Line(kind, val, width) == [kind |-> kind, val |-> val, width |-> width]

SrcLine(s) == Line("src", s, 0)
HdlLine(s) == Line("hdlname", s, 0)
WireLine(name, width) == Line("wire", name, width)

\* A wire table entry: the tuple (wire_name, width, src_attr, hdlname).
Wire(name, width, src, orig) ==
    [name |-> name, width |-> width, src |-> src, orig |-> orig]

NoWire == Wire(None, 0, None, None)

\* The parser's state: the pending attributes and the two tables.
ParseState(src, hdl, gate, gold) ==
    [src |-> src, hdl |-> hdl, gate |-> gate, gold |-> gold]

\* The classification with the src path tested before the origin tag.
ClassifySrcFirst(st, name, width, gate_abs, gold_abs) ==
    IF st.src # None /\ Contains(st.src, gold_abs)
    THEN ParseState(None, None, st.gate,
                    Append(st.gold, Wire(name, width, st.src, None)))
    ELSE IF st.src # None /\ Contains(st.src, gate_abs)
    THEN ParseState(None, None,
                    Append(st.gate, Wire(name, width, st.src, None)),
                    st.gold)
    ELSE IF st.hdl # None /\ StartsWith(st.hdl, <<"gold ">>)
    THEN ParseState(None, None, st.gate,
                    Append(st.gold, Wire(name, width, st.src, Tail(st.hdl))))
    ELSE IF st.hdl # None /\ StartsWith(st.hdl, <<"gate ">>)
    THEN ParseState(None, None,
                    Append(st.gate, Wire(name, width, st.src, Tail(st.hdl))),
                    st.gold)
    ELSE ParseState(None, None, st.gate, st.gold)

\* The classification with every branch under `if current_src`.
ClassifyNeedsSrc(st, name, width, gate_abs, gold_abs) ==
    IF st.src = None THEN ParseState(None, None, st.gate, st.gold)
    ELSE IF st.hdl # None /\ StartsWith(st.hdl, <<"gold ">>)
    THEN ParseState(None, None, st.gate,
                    Append(st.gold, Wire(name, width, st.src, Tail(st.hdl))))
    ELSE IF st.hdl # None /\ StartsWith(st.hdl, <<"gate ">>)
    THEN ParseState(None, None,
                    Append(st.gate, Wire(name, width, st.src, Tail(st.hdl))),
                    st.gold)
    ELSE IF Contains(st.src, gold_abs)
    THEN ParseState(None, None, st.gate,
                    Append(st.gold, Wire(name, width, st.src, None)))
    ELSE IF Contains(st.src, gate_abs)
    THEN ParseState(None, None,
                    Append(st.gate, Wire(name, width, st.src, None)),
                    st.gold)
    ELSE ParseState(None, None, st.gate, st.gold)

\* A wire declaration: classify it by the pending attributes.
Classify(st, name, width, gate_abs, gold_abs) ==
    IF st.hdl # None /\ StartsWith(st.hdl, <<"gold ">>)
    THEN ParseState(None, None, st.gate,
                    Append(st.gold, Wire(name, width, st.src, Tail(st.hdl))))
    ELSE IF st.hdl # None /\ StartsWith(st.hdl, <<"gate ">>)
    THEN ParseState(None, None,
                    Append(st.gate, Wire(name, width, st.src, Tail(st.hdl))),
                    st.gold)
    ELSE IF st.src # None /\ Contains(st.src, gold_abs)
    THEN ParseState(None, None, st.gate,
                    Append(st.gold, Wire(name, width, st.src, None)))
    ELSE IF st.src # None /\ Contains(st.src, gate_abs)
    THEN ParseState(None, None,
                    Append(st.gate, Wire(name, width, st.src, None)),
                    st.gold)
    ELSE ParseState(None, None, st.gate, st.gold)

\* The loop body without the reset on lines that are neither attributes nor
\* declarations.
ParseLineNoReset(st, line, gate_abs, gold_abs) ==
    CASE line.kind = "src" -> [st EXCEPT !.src = line.val]
      [] line.kind = "hdlname" -> [st EXCEPT !.hdl = line.val]
      [] line.kind = "wire" ->
            Classify(st, line.val, IF line.width # 0 THEN line.width ELSE 1,
                     gate_abs, gold_abs)
      [] OTHER -> st

\* One iteration of the loop over the dump's lines.
ParseLine(st, line, gate_abs, gold_abs) ==
    CASE line.kind = "src" -> [st EXCEPT !.src = line.val]
      [] line.kind = "hdlname" -> [st EXCEPT !.hdl = line.val]
      [] line.kind = "wire" ->
            Classify(st, line.val, IF line.width # 0 THEN line.width ELSE 1,
                     gate_abs, gold_abs)
      [] line.kind = "attribute" -> st
      [] OTHER -> ParseState(None, None, st.gate, st.gold)

RECURSIVE ParseLines(_, _, _, _)
ParseLines(st, lines, gate_abs, gold_abs) ==
    IF lines = <<>> THEN st
    ELSE ParseLines(ParseLine(st, Head(lines), gate_abs, gold_abs),
                    Tail(lines), gate_abs, gold_abs)

\* parse_dump: the gate and gold wire tables of a dump.
ParseDump(dump_text, gate_abs, gold_abs) ==
    LET st == ParseLines(ParseState(None, None, <<>>, <<>>),
                         dump_text, gate_abs, gold_abs)
    IN [gate |-> st.gate, gold |-> st.gold]

\* ------------------------------------------------------- target resolution

\* find_gate_target with each match put in front of the earlier ones
\* (matches.insert(0, ...) for matches.append(...)).
RECURSIVE Reverse(_)
Reverse(s) == IF s = <<>> THEN <<>> ELSE Append(Reverse(Tail(s)), Head(s))

FindGateTargetLastFirst(gate_wires, gate_abs, line, start_col, end_col) ==
    LET target_src == SrcAttr(gate_abs, line, start_col, end_col)
    IN Reverse(SelectSeq(gate_wires,
                 LAMBDA w : w.src # None /\ Contains(w.src, target_src)))

\* find_gate_target: the gate wires whose src holds the key of the location.
FindGateTarget(gate_wires, gate_abs, line, start_col, end_col) ==
    LET target_src == SrcAttr(gate_abs, line, start_col, end_col)
    IN SelectSeq(gate_wires,
                 LAMBDA w : w.src # None /\ Contains(w.src, target_src))

\* src.split(':')[-1] if ':' in src else src
RECURSIVE SrcShort(_)
SrcShort(src) ==
    IF \E i \in 1..Len(src) : src[i] = ":"
    THEN IF Head(src) = ":" /\ ~(\E i \in 2..Len(src) : src[i] = ":")
         THEN Tail(src)
         ELSE SrcShort(Tail(src))
    ELSE src

\* A row of the "Available gate signals" listing.
CatalogueRow(name, width, src_short) ==
    [name |-> name, width |-> width, src |-> src_short]

\* The listing without its elif branch: only wires with an hdlname are shown.
CatalogueTaggedOnly(gate_wires) ==
    LET shown == SelectSeq(gate_wires, LAMBDA w : w.src # None /\ w.orig # None)
    IN [k \in 1..Len(shown) |->
          [name |-> shown[k].orig, width |-> shown[k].width,
           src |-> SrcShort(shown[k].src)]]

\* The listing main prints when no gate wire is found at the location.
RECURSIVE Catalogue(_)
Catalogue(gate_wires) ==
    IF gate_wires = <<>> THEN <<>>
    ELSE LET w == Head(gate_wires)
             rest == Catalogue(Tail(gate_wires))
         IN IF w.src # None /\ w.orig # None
            THEN <<CatalogueRow(w.orig, w.width, SrcShort(w.src))>> \o rest
            ELSE IF w.src # None
            THEN <<CatalogueRow(Remove(w.name, "\\"), w.width, SrcShort(w.src))>>
                 \o rest
            ELSE rest

\* ------------------------------------------------------- candidate filter

\* The wires filter_gold_candidates skips.
Skipped(w) ==
    \/ w.orig # None /\ (w.orig = <<"clock">> \/ w.orig = <<"reset">>)
    \/ w.orig # None /\ StartsWith(w.orig, <<"io_">>)
    \/ Contains(w.name, <<"clk2fflogic">>)
    \/ StartsWith(w.name, <<"\\", "in_">>)
    \/ StartsWith(w.name, <<"\\", "trigger">>)
    \/ StartsWith(w.name, <<"\\", "gold_">>)
    \/ StartsWith(w.name, <<"\\", "gate_">>)
    \/ Contains(w.name, <<"$procmux$">>)
    \/ Contains(w.name, <<"rtlil.cc">>)
    \/ Contains(w.name, <<"$0", "\\">>)

\* filter_gold_candidates looping over gold_wires[1:].
FilterSkipsFirstWire(gold_wires) ==
    IF gold_wires = <<>> THEN <<>>
    ELSE SelectSeq(Tail(gold_wires), LAMBDA w : ~Skipped(w))

\* filter_gold_candidates with candidates.insert(0, ...) for
\* candidates.append(...).
FilterNewestFirst(gold_wires) ==
    Reverse(SelectSeq(gold_wires, LAMBDA w : ~Skipped(w)))

FilterGoldCandidates(gold_wires) ==
    SelectSeq(gold_wires, LAMBDA w : ~Skipped(w))

\* The width match with >= for ==.
WidthAtLeast(cands, gate_target_width) ==
    SelectSeq(cands, LAMBDA w : w.width >= gate_target_width)

\* The width match of main's step 4.
WidthMatch(cands, gate_target_width) ==
    SelectSeq(cands, LAMBDA w : w.width = gate_target_width)

\* ------------------------------------------------------------- proof batch

\* One sat command of the proof script.
SatCommand(wire_name, gate_target_wire, bounded) ==
    [mode |-> IF bounded THEN "seq" ELSE "tempinduct",
     prove |-> wire_name, against |-> gate_target_wire]

\* The sat commands with a candidate that is listed twice proved once.
RECURSIVE Dedup(_)
Dedup(s) ==
    IF s = <<>> THEN <<>>
    ELSE LET front == Dedup(SubSeq(s, 1, Len(s) - 1))
             last == s[Len(s)]
         IN IF \E i \in 1..Len(front) : front[i] = last
            THEN front ELSE Append(front, last)

ProofCommandsDedup(gate_target_wire, cands, bounded) ==
    LET uniq == Dedup(cands)
    IN [k \in 1..Len(uniq) |->
          [mode |-> IF bounded THEN "seq" ELSE "tempinduct",
           prove |-> uniq[k].name, against |-> gate_target_wire]]

\* The sat commands run_proofs appends to the miter script, one per candidate.
ProofCommands(gate_target_wire, cands, bounded) ==
    [k \in 1..Len(cands) |->
        SatCommand(cands[k].name, gate_target_wire, bounded)]

ProofResult(cand, passed) == [cand |-> cand, passed |-> passed]

\* The loop over the output's lines: results so far and result_idx.
RECURSIVE ScanOutput(_, _, _, _)
ScanOutput(output, cands, results, result_idx) ==
    IF output = <<>> THEN results
    ELSE LET line == Head(output)
         IN IF Contains(line, <<"SUCCESS!">>)
            THEN IF result_idx < Len(cands)
                 THEN ScanOutput(Tail(output), cands,
                          Append(results, ProofResult(cands[result_idx + 1], TRUE)),
                          result_idx + 1)
                 ELSE ScanOutput(Tail(output), cands, results, result_idx)
            ELSE IF Contains(line, <<"FAIL!">>)
            THEN IF result_idx < Len(cands)
                 THEN ScanOutput(Tail(output), cands,
                          Append(results, ProofResult(cands[result_idx + 1], FALSE)),
                          result_idx + 1)
                 ELSE ScanOutput(Tail(output), cands, results, result_idx)
            ELSE ScanOutput(Tail(output), cands, results, result_idx)

\* The loop with `result_idx += 1` in the SUCCESS! branch only.
RECURSIVE ScanOutputFailKeepsIndex(_, _, _, _)
ScanOutputFailKeepsIndex(output, cands, results, result_idx) ==
    IF output = <<>> THEN results
    ELSE LET line == Head(output)
         IN IF Contains(line, <<"SUCCESS!">>)
            THEN IF result_idx < Len(cands)
                 THEN ScanOutputFailKeepsIndex(Tail(output), cands,
                          Append(results, ProofResult(cands[result_idx + 1], TRUE)),
                          result_idx + 1)
                 ELSE ScanOutputFailKeepsIndex(Tail(output), cands, results,
                                               result_idx)
            ELSE IF Contains(line, <<"FAIL!">>)
            THEN IF result_idx < Len(cands)
                 THEN ScanOutputFailKeepsIndex(Tail(output), cands,
                          Append(results, ProofResult(cands[result_idx + 1], FALSE)),
                          result_idx)
                 ELSE ScanOutputFailKeepsIndex(Tail(output), cands, results,
                                               result_idx)
            ELSE ScanOutputFailKeepsIndex(Tail(output), cands, results,
                                          result_idx)

ParseResultsFailKeepsIndex(output, cands) ==
    ScanOutputFailKeepsIndex(output, cands, <<>>, 0)

\* The result list run_proofs returns for the backend's output.
ParseResults(output, cands) == ScanOutput(output, cands, <<>>, 0)

\* main's step 6: the candidates that passed.
Equivalent(results) == SelectSeq(results, LAMBDA r : r.passed)

\* ------------------------------------------------- modules and the miter

\* A design file: whether it exists and, in order, the modules it declares.
File(modules) == [exists |-> TRUE, modules |-> modules]
NoFile == [exists |-> FALSE, modules |-> <<>>]

\* detect_module_name: the first module declared in the file.
DetectModuleName(verilog_file) ==
    IF verilog_file.modules = <<>> THEN None ELSE Head(verilog_file.modules)

\* get_other_modules: every declared module but the target.
GetOtherModules(verilog_file, target_module) ==
    SelectSeq(verilog_file.modules, LAMBDA m : m # target_module)

\* generate_miter_script: each design is read, the other modules are deleted,
\* and `prep -top module_name` is run on what is left.
GenerateMiterScript(gold_file, gate_file, module_name) ==
    [ gold |-> gold_file,
      gold_delete |-> GetOtherModules(gold_file, module_name),
      gate |-> gate_file,
      gate_delete |-> GetOtherModules(gate_file, module_name),
      top |-> module_name ]

\* The modules of a design that the delete commands leave.
Remaining(verilog_file, deleted) ==
    SelectSeq(verilog_file.modules,
              LAMBDA m : \A k \in DOMAIN deleted : deleted[k] # m)

\* The backend builds the miter only when each side is left with the one
\* module named top; otherwise prep stops the script with an error.
BuildOk(script) ==
    /\ Remaining(script.gold, script.gold_delete) = << script.top >>
    /\ Remaining(script.gate, script.gate_delete) = << script.top >>

\* ---------------------------------------------------- the results table

\* A line of the gold file: a keyword, the identifiers after it, and what
\* follows `//`: nothing, a remark, `@[loc]` or a plain `loc`.
VerilogLine(kw, words, form, loc) ==
    [kw |-> kw, words |-> words, form |-> form, loc |-> loc]

\* _extract_location: the text inside @[...], else the plain path:line:col.
ExtractLocation(line) ==
    IF line.form \in {"at", "plain"} THEN line.loc ELSE None

\* get_source_location: the location of the first annotated line that
\* declares or assigns the signal.
RECURSIVE GetSourceLocation(_, _)
GetSourceLocation(signal_name, verilog_file) ==
    IF verilog_file = <<>> THEN None
    ELSE LET line == Head(verilog_file)
             named ==
                \/ /\ line.kw \in {"wire", "reg"}
                   /\ \E k \in DOMAIN line.words : line.words[k] = signal_name
                \/ /\ line.kw = "assign"
                   /\ line.words # <<>>
                   /\ Head(line.words) = signal_name
         IN IF named /\ line.form # "none" /\ ExtractLocation(line) # None
            THEN ExtractLocation(line)
            ELSE GetSourceLocation(signal_name, Tail(verilog_file))

\* loc_info.split('/')[-1]
RECURSIVE AfterLastSlash(_)
AfterLastSlash(text) ==
    IF Contains(text, <<"/">>) THEN AfterLastSlash(Tail(text)) ELSE text

\* One row of the results table.
ResultRow(w, gold_text) ==
    LET display_name == IF w.orig # None THEN w.orig ELSE Remove(w.name, "\\")
        loc_info == GetSourceLocation(display_name, gold_text)
    IN [ name |-> display_name,
         width |-> w.width,
         loc_short |-> IF loc_info # None THEN AfterLastSlash(loc_info)
                       ELSE <<"N/A">> ]

\* The rows main prints for the equivalent signals.
ResultsTable(equivalent, gold_text) ==
    [k \in 1..Len(equivalent) |-> ResultRow(equivalent[k].cand, gold_text)]

\* --------------------------------------------- the reporter's locations

\* The characters \d and [0-9,] match.
Digit == {DigitChar[k] : k \in DOMAIN DigitChar}
DigitOrComma == Digit \cup {","}

IsDigit(c) == c \in Digit

\* int(text) for a run of digits.
RECURSIVE ToInt(_)
ToInt(text) ==
    IF text = <<>> THEN 0
    ELSE 10 * ToInt(SubSeq(text, 1, Len(text) - 1))
            + ((CHOOSE k \in DOMAIN DigitChar : DigitChar[k] = text[Len(text)]) - 1)

\* The length of the longest run of characters of a class that starts at i.
RECURSIVE RunLen(_, _, _)
RunLen(text, i, class) ==
    IF i <= Len(text) /\ text[i] \in class
    THEN 1 + RunLen(text, i + 1, class)
    ELSE 0

At(text, i) == IF i \in DOMAIN text THEN text[i] ELSE ""

NoMatch == [found |-> FALSE, line |-> <<>>, col |-> <<>>, end |-> 0]

\* r':(\d+):(\d+)(?![,}])' tried at position i. Both groups are greedy; when
\* the character after the second run is a comma or a closing brace the
\* engine gives back one digit at a time, and the digit given back passes the
\* lookahead.
SimpleMatchAt(text, i) ==
    LET n1 == RunLen(text, i + 1, Digit)
        j == i + 1 + n1
        n2 == RunLen(text, j + 1, Digit)
        blocked == At(text, j + 1 + n2) \in {",", "}"}
        taken == IF blocked THEN n2 - 1 ELSE n2
    IN IF At(text, i) = ":" /\ n1 >= 1 /\ At(text, j) = ":" /\ n2 >= 1
             /\ taken >= 1
       THEN [found |-> TRUE,
             line |-> SubSeq(text, i + 1, i + n1),
             col |-> SubSeq(text, j + 1, j + taken),
             end |-> j + taken]
       ELSE NoMatch

\* r':(\d+):\{([0-9,]+)\}' tried at position i.
BraceMatchAt(text, i) ==
    LET n1 == RunLen(text, i + 1, Digit)
        j == i + 1 + n1
        n2 == RunLen(text, j + 2, DigitOrComma)
    IN IF At(text, i) = ":" /\ n1 >= 1 /\ At(text, j) = ":"
             /\ At(text, j + 1) = "{" /\ n2 >= 1 /\ At(text, j + 2 + n2) = "}"
       THEN [found |-> TRUE,
             line |-> SubSeq(text, i + 1, i + n1),
             col |-> SubSeq(text, j + 2, j + 1 + n2),
             end |-> j + 2 + n2]
       ELSE NoMatch

\* re.findall: the matches from left to right, none overlapping another.
RECURSIVE FindAll(_, _, _)
FindAll(pattern, text, i) ==
    IF i > Len(text) THEN <<>>
    ELSE LET m == CASE pattern = "simple" -> SimpleMatchAt(text, i)
                    [] pattern = "brace" -> BraceMatchAt(text, i)
         IN IF m.found THEN <<m>> \o FindAll(pattern, text, m.end + 1)
            ELSE FindAll(pattern, text, i + 1)

\* cols.split(',')
RECURSIVE Split(_, _)
Split(text, cur) ==
    IF text = <<>> THEN <<cur>>
    ELSE IF Head(text) = "," THEN <<cur>> \o Split(Tail(text), <<>>)
    ELSE Split(Tail(text), Append(cur, Head(text)))

Pair(line, col) == <<line, col>>

\* The pairs of the brace matches, each match's columns in order.
RECURSIVE BracePairs(_)
BracePairs(found) ==
    IF found = <<>> THEN <<>>
    ELSE LET m == Head(found)
             cols == Split(m.col, <<>>)
         IN [k \in 1..Len(cols) |-> Pair(ToInt(m.line), ToInt(cols[k]))]
               \o BracePairs(Tail(found))

\* parse_chisel_locations: the simple matches, then the brace matches.
ParseChiselLocations(loc_string) ==
    LET simple_matches == FindAll("simple", loc_string, 1)
        brace_matches == FindAll("brace", loc_string, 1)
    IN [k \in 1..Len(simple_matches) |->
            Pair(ToInt(simple_matches[k].line), ToInt(simple_matches[k].col))]
          \o BracePairs(brace_matches)

\* sorted(...) of a list of integers.
Sorted(seq) == SortSeq(seq, LAMBDA a, b : a < b)

\* The keys of loc_by_line in sorted order.
RECURSIVE Ascending(_)
Ascending(set) ==
    IF set = {} THEN <<>>
    ELSE LET least == CHOOSE x \in set : \A y \in set : x <= y
         IN <<least>> \o Ascending(set \ {least})

\* ','.join(...) and ', '.join(...)
RECURSIVE Join(_, _)
Join(parts, sep) ==
    IF parts = <<>> THEN <<>>
    ELSE IF Len(parts) = 1 THEN parts[1]
    ELSE parts[1] \o sep \o Join(Tail(parts), sep)

\* The columns loc_by_line holds for a line, in the order of locs.
ColsOf(locs, line) ==
    LET on == SelectSeq(locs, LAMBDA l : l[1] = line)
    IN [k \in 1..Len(on) |-> on[k][2]]

\* One entry of loc_parts.
LocPart(line, cols) ==
    IF Len(cols) > 1
    THEN <<":">> \o Digits(line) \o <<":", "{">>
            \o Join([k \in 1..Len(cols) |-> Digits(Sorted(cols)[k])], <<",">>)
            \o <<"}">>
    ELSE <<":">> \o Digits(line) \o <<":">> \o Digits(cols[1])

\* The number of grouped parts the reporter shows.
MaxParts == 3

\* The reporter's location cell for a non-empty list of pairs.
FormatLocs(locs) ==
    IF Len(locs) > 1
    THEN LET lines == Ascending({locs[k][1] : k \in DOMAIN locs})
             loc_parts == [k \in 1..Len(lines) |->
                              LocPart(lines[k], ColsOf(locs, lines[k]))]
             shown == SubSeq(loc_parts, 1,
                             IF Len(loc_parts) < MaxParts THEN Len(loc_parts)
                             ELSE MaxParts)
         IN Join(shown, <<",", " ">>) \o <<"\n", "(ambiguous)">>
    ELSE <<":">> \o Digits(locs[1][1]) \o <<":">> \o Digits(locs[1][2])

\* ------------------------------------------- _extract_location on a line

IsSpace(c) == c \in {" ", "\t"}

\* str.strip()
RECURSIVE LStrip(_)
LStrip(text) ==
    IF text # <<>> /\ IsSpace(Head(text)) THEN LStrip(Tail(text)) ELSE text
Strip(text) == Reverse(LStrip(Reverse(LStrip(text))))

\* The characters of `text` other than c: the class [^c].
AllBut(text, c) == { text[k] : k \in DOMAIN text } \ {c}

\* re.search(r'@\[([^\]]+)\]', line) from position i on: group 1 of the
\* leftmost match, None when there is none.
RECURSIVE SearchBracketed(_, _)
SearchBracketed(text, i) ==
    IF i > Len(text) THEN None
    ELSE LET n == RunLen(text, i + 2, AllBut(text, "]"))
         IN IF /\ At(text, i) = "@"
               /\ At(text, i + 1) = "["
               /\ n >= 1
               /\ At(text, i + 2 + n) = "]"
            THEN SubSeq(text, i + 2, i + 1 + n)
            ELSE SearchBracketed(text, i + 1)

\* The pattern \.scala:\d at position p.
ScalaColonDigitAt(text, p) ==
    /\ At(text, p) = ".scala"
    /\ At(text, p + 1) = ":"
    /\ IsDigit(At(text, p + 2))

\* re.search(r'//\s*(.+\.scala:\d+.*)$', line) from position i on, and
\* .strip() of group 1: `//`, then at least one character before a
\* `.scala:<digit>`, the group running to the end of the line. Whatever
\* blanks \s* leaves to the group, strip() takes them off.
RECURSIVE SearchTrailing(_, _)
SearchTrailing(text, i) ==
    IF i > Len(text) THEN None
    ELSE IF /\ text[i] = "//"
            /\ \E p \in (i + 2)..Len(text) : ScalaColonDigitAt(text, p)
         THEN Strip(SubSeq(text, i + 1, Len(text)))
         ELSE SearchTrailing(text, i + 1)

\* _extract_location with the trailing-comment form tried first.
ExtractLocationTrailingFirst(text) ==
    IF SearchTrailing(text, 1) # None THEN SearchTrailing(text, 1)
    ELSE SearchBracketed(text, 1)

\* _extract_location on the characters of a line.
ExtractLocationText(text) ==
    IF SearchBracketed(text, 1) # None THEN SearchBracketed(text, 1)
    ELSE SearchTrailing(text, 1)

\* --------------------------------------- get_other_modules on a file's lines

\* The words of the lines below: runs of \w characters.
WordTokens ==
    {"module", "endmodule", "wire", "keep", "M", "Sub", "Leaf", "X", "t"}

\* re.match(r'\s*module\s+(\w+)', line): group 1 of a match at the start of
\* the line, None without one.
MatchModule(text) ==
    LET s == RunLen(text, 1, {" ", "\t"})
        w == RunLen(text, s + 2, {" ", "\t"})
    IN IF /\ At(text, s + 1) = "module"
          /\ w >= 1
          /\ At(text, s + 2 + w) \in WordTokens
       THEN << At(text, s + 2 + w) >>
       ELSE None

\* get_other_modules on the lines of the file.
RECURSIVE GetOtherModulesLines(_, _)
GetOtherModulesLines(lines, target_module) ==
    IF lines = <<>> THEN <<>>
    ELSE LET match == MatchModule(Head(lines))
             rest == GetOtherModulesLines(Tail(lines), target_module)
         IN IF match # None /\ match # target_module
            THEN <<match>> \o rest
            ELSE rest

\* --------------------------------------------------- cross-signal discovery

Signal(name, width) == [name |-> name, width |-> width]
SignalPair(gold_sig, gate_sig, width) ==
    [gold_sig |-> gold_sig, gate_sig |-> gate_sig, width |-> width]

\* The keys of a signal dict.
Keys(signals) == {signals[k].name : k \in DOMAIN signals}

\* The nested loop over both dicts: the pairs of equal width, gold-major.
RECURSIVE AllWidthPairs(_, _)
AllWidthPairs(gold_internal, gate_internal) ==
    IF gold_internal = <<>> THEN <<>>
    ELSE LET g == Head(gold_internal)
             same == SelectSeq(gate_internal, LAMBDA s : s.width = g.width)
         IN [k \in 1..Len(same) |-> SignalPair(g.name, same[k].name, g.width)]
               \o AllWidthPairs(Tail(gold_internal), gate_internal)

\* main's pair list: when some name is in both designs, only same-named pairs
\* and pairs of names unknown to the other design are kept.
MatchingWidthPairs(gold_internal, gate_internal) ==
    LET all == AllWidthPairs(gold_internal, gate_internal)
    IN IF Keys(gold_internal) \cap Keys(gate_internal) # {}
       THEN SelectSeq(all, LAMBDA p :
               \/ p.gold_sig = p.gate_sig
               \/ /\ p.gold_sig \notin Keys(gate_internal)
                  /\ p.gate_sig \notin Keys(gold_internal))
       ELSE all

\* What subprocess.run did: returned an output, timed out, or raised.
Run(how, output) == [how |-> how, output |-> output]
NoRun == Run("skipped", <<>>)

\* The lines of backend output test_equivalence looks for.
ErrorInGold == <<"Error in gold signal">>
ErrorInGate == <<"Error in gate signal">>
ObjectsLine(n) == Digits(n) \o <<" objects">>
UnprovenAdded == <<"Unproven $equiv $auto$equiv_add">>
ProvenLine(n) == <<"Of those cells ">> \o Digits(n) \o <<" are proven">>

\* re.findall(r'(\d+) objects', output), as integers.
RECURSIVE ObjectCounts(_)
ObjectCounts(output) ==
    IF output = <<>> THEN <<>>
    ELSE LET line == Head(output)
             n == RunLen(line, 1, Digit)
         IN IF n >= 1 /\ At(line, n + 1) = " objects"
            THEN <<ToInt(SubSeq(line, 1, n))>> \o ObjectCounts(Tail(output))
            ELSE ObjectCounts(Tail(output))

\* re.search(r'Of those cells (\d+) are proven', output): the first count,
\* in a list that is empty when there is no match.
RECURSIVE ProvenCounts(_)
ProvenCounts(output) ==
    IF output = <<>> THEN <<>>
    ELSE LET line == Head(output)
             n == RunLen(line, 2, Digit)
         IN IF At(line, 1) = "Of those cells " /\ n >= 1
                  /\ At(line, n + 2) = " are proven"
            THEN <<ToInt(SubSeq(line, 2, n + 1))>>
            ELSE ProvenCounts(Tail(output))

HasLine(output, text) == \E k \in DOMAIN output : Contains(output[k], text)

\* test_equivalence's checks with `cells_added < 0` for `cells_added <= 0`.
OutputProvesNoCellNeeded(output) ==
    LET counts == ObjectCounts(output)
        proven == ProvenCounts(output)
    IN IF HasLine(output, ErrorInGold) \/ HasLine(output, ErrorInGate)
       THEN FALSE
       ELSE IF Len(counts) < 2 THEN FALSE
       ELSE IF counts[2] - counts[1] < 0 THEN FALSE
       ELSE IF HasLine(output, UnprovenAdded) THEN FALSE
       ELSE IF proven # <<>> THEN proven[1] > 0
       ELSE FALSE

\* The checks test_equivalence makes on result.stdout.
OutputProves(output) ==
    LET counts == ObjectCounts(output)
        proven == ProvenCounts(output)
    IN IF HasLine(output, ErrorInGold) \/ HasLine(output, ErrorInGate)
       THEN FALSE
       ELSE IF Len(counts) < 2 THEN FALSE
       ELSE IF counts[2] - counts[1] <= 0 THEN FALSE
       ELSE IF HasLine(output, UnprovenAdded) THEN FALSE
       ELSE IF proven # <<>> THEN proven[1] > 0
       ELSE FALSE

\* test_equivalence's return value when it returns: same-named signals are
\* a match without a backend run, a timeout is False.
TestEquivalence(gold_sig, gate_sig, run) ==
    IF gold_sig = gate_sig THEN TRUE
    ELSE IF run.how = "timeout" THEN FALSE
    ELSE OutputProves(run.output)

\* What the loop records of one pair.
Query(pair, run, result) ==
    [gold_sig |-> pair.gold_sig, gate_sig |-> pair.gate_sig, run |-> run,
     result |-> result]

\* ------------------------------------------------------------------ inputs

\* The design files main may be given, and --module.
GoldFiles == { NoFile, File(<<>>), File(<< <<"M">>, <<"Sub">> >>) }
GateFiles == { NoFile, File(<< <<"M">> >>), File(<< <<"Sub">> >>) }
ModuleArgs == { None, <<"M">>, <<"X">> }

\* The text of the gold file as the reporter reads it: with every signal
\* annotated, and with remarks or nothing where the annotations were.
ScalaLoc(line, col) ==
    <<"src", "/", "main", "/", "A.scala", ":">> \o Digits(line)
        \o <<":">> \o Digits(col)
GoldTexts ==
    { << VerilogLine("wire", << <<"x">> >>, "at", ScalaLoc(3, 5)),
         VerilogLine("wire", << <<"v">> >>, "plain", ScalaLoc(6, 2)),
         VerilogLine("assign", << <<"io_", "a">>, <<"x">> >>, "at",
                     ScalaLoc(8, 4)) >>,
      << VerilogLine("wire", << <<"x">> >>, "remark", None),
         VerilogLine("wire", << <<"v">> >>, "none", None),
         VerilogLine("assign", << <<"io_", "a">>, <<"x">> >>, "at",
                     ScalaLoc(8, 4)) >> }

\* A parsed --loc argument: (line, start_col, end_col).
Loc(line, start_col, end_col) ==
    [line |-> line, start_col |-> start_col, end_col |-> end_col]

NoLoc == Loc(0, 0, 0)

Locs == {Loc(2, 1, 3), Loc(4, 1, 3), Loc(7, 1, 3)}

\* Wire declarations with their attribute lines, as Yosys dumps them.
GateTagged ==
    << SrcLine(SrcAttr(GateAbs, 2, 1, 3)), HdlLine(<<"gate ", "y">>),
       WireLine(<<"\\", "gate.", "y">>, 8) >>
GateUntagged ==
    << SrcLine(SrcAttr(GateAbs, 4, 1, 3) \o <<"|">> \o SrcAttr(GateAbs, 2, 1, 3)),
       WireLine(<<"\\", "gate.", "t">>, 0) >>
GateNoSrc ==
    << HdlLine(<<"gate ", "z">>), WireLine(<<"\\", "gate.", "z">>, 8) >>
GoldTagged ==
    << SrcLine(SrcAttr(GoldAbs, 3, 1, 5)), HdlLine(<<"gold ", "x">>),
       WireLine(<<"\\", "gold.", "x">>, 8) >>
GoldNarrow ==
    << SrcLine(SrcAttr(GoldAbs, 6, 1, 2)), HdlLine(<<"gold ", "v">>),
       WireLine(<<"\\", "gold.", "v">>, 0) >>
GoldUntaggedPort ==
    << SrcLine(SrcAttr(GoldAbs, 8, 1, 4)), WireLine(<<"\\", "io_", "a">>, 8) >>
GoldClock ==
    << SrcLine(SrcAttr(GoldAbs, 9, 1, 5)), HdlLine(<<"gold ", "clock">>),
       WireLine(<<"\\", "gold.", "clock">>, 0) >>
GoldProcmux ==
    << SrcLine(SrcAttr(GoldAbs, 3, 1, 5)),
       WireLine(<<"$procmux$", "7", "_Y">>, 8) >>

Blocks ==
    << GateTagged, GateUntagged, GateNoSrc, GoldTagged, GoldNarrow,
       GoldUntaggedPort, GoldClock, GoldProcmux >>

RECURSIVE Flatten(_)
Flatten(seqs) ==
    IF seqs = <<>> THEN <<>> ELSE Head(seqs) \o Flatten(Tail(seqs))

\* The dumps Yosys may print: up to MaxWires declarations, in any order.
Dumps ==
    { Flatten([i \in 1..Len(c) |-> Blocks[c[i]]]) :
        c \in UNION { [1..n -> 1..Len(Blocks)] : n \in 0..MaxWires } }

\* A line of backend output holding a marker, or none.
OutLines == { <<"SUCCESS!">>, <<"FAIL!">>, <<"Solving", "problem">> }

\* result.stdout + result.stderr, split into lines.
Outputs == UNION { [1..n -> OutLines] : n \in 0..MaxOut }

\* The output of a run the backend ended with an error: what it had printed,
\* then its error line.
ErrorOutputs ==
    { Append(text, <<"ERROR:">>) : text \in {t \in Outputs : Len(t) < MaxOut} }

\* -------------------------------------------------------------------- state

VARIABLES
    pc,          \* where main() is
    loc,         \* the parsed --loc
    bounded,     \* args.bounded
    dump_text,   \* the text run_yosys_dump returned
    gate_wires,  \* parse_dump's gate table
    gold_wires,  \* parse_dump's gold table
    matches,     \* find_gate_target's result
    target,      \* matches[0]
    candidates,  \* the candidate list handed to run_proofs
    calls,       \* the backend invocations so far, with what each was asked
    output,      \* the lines of output run_proofs read back
    results,     \* run_proofs' return value
    module_name, \* args.module, or the name detect_module_name found
    gold_file,   \* the gold design: whether it exists, the modules it declares
    gate_file,   \* the gate design, likewise
    returncode,  \* the exit status of the last backend run
    table,       \* the rows of the results table
    loc_string,  \* the reporter's chisel_loc annotation
    locs,        \* parse_chisel_locations' result
    col4,        \* the reporter's "Compiler's Direct Location" cell
    gold_internal,        \* find_correspondences: the gold signals, in order
    gate_internal,        \* find_correspondences: the gate signals, in order
    matching_width_pairs, \* the pairs the discovery loop goes through
    tested,               \* how many of them it has been through
    correspondences,      \* the pairs it reports
    queries,              \* what happened to each pair tested, in order
    reads,       \* what the scripts and the report found in the two files
    scripts,     \* the temporary script files present
    script_path, \* the script file of the backend call under way
    comment_line,  \* the line handed to _extract_location
    location,      \* what _extract_location returned
    verilog_lines, \* the lines get_other_modules reads
    others,        \* what get_other_modules returned
    catalogue,   \* the "Available gate signals" rows printed
    equivalent,  \* the rows of the results table
    outcome,     \* how the run ended
    exitCode     \* the process's exit status

vars ==
    << pc, loc, bounded, dump_text, gate_wires, gold_wires, matches, target,
       candidates, calls, output, results, catalogue, equivalent, outcome,
       exitCode, module_name, gold_file, gate_file, returncode, table,
       loc_string, locs, col4, gold_internal, gate_internal,
       matching_width_pairs, tested, correspondences, queries, reads,
       scripts, script_path, comment_line, location, verilog_lines, others >>

\* The state of trace_signal's main, and of the reporter's cell.
tracerVars ==
    << loc, bounded, dump_text, gate_wires, gold_wires, matches, target,
       candidates, calls, output, results, catalogue, equivalent,
       module_name, gold_file, gate_file, returncode, table >>
reporterVars == << loc_string, locs, col4 >>

\* The state of find_correspondences' discovery loop.
discoveryVars ==
    << gold_internal, gate_internal, matching_width_pairs, tested,
       correspondences, queries >>

\* The discovery loop has not been entered.
NoDiscovery ==
    /\ gold_internal = <<>>
    /\ gate_internal = <<>>
    /\ matching_width_pairs = <<>>
    /\ tested = 0
    /\ correspondences = <<>>
    /\ queries = <<>>

\* The script file of a backend call, and that no call is under way.
scriptVars == << scripts, script_path >>
NoScripts ==
    /\ scripts = {}
    /\ script_path = None

\* The arguments and results of the two helpers run on their own, and that
\* neither has been.
helperVars == << comment_line, location, verilog_lines, others >>
NoHelperCall ==
    /\ comment_line = <<>>
    /\ location = None
    /\ verilog_lines = <<>>
    /\ others = <<>>

\* A step reads a file: open() in get_other_modules, read_verilog in the
\* backend, open() in get_source_location.
FileRead(step, file, content) ==
    [step |-> step, file |-> file, content |-> content]

\* generate_miter_script and the backend run on its script read both files.
ScriptReads(step, gold, gate) ==
    << FileRead(step, "gold", gold), FileRead(step, "gate", gate) >>

Init ==
    /\ pc = "start"
    /\ loc = NoLoc
    /\ bounded = FALSE
    /\ dump_text = <<>>
    /\ gate_wires = <<>>
    /\ gold_wires = <<>>
    /\ matches = <<>>
    /\ target = NoWire
    /\ candidates = <<>>
    /\ calls = <<>>
    /\ output = <<>>
    /\ results = <<>>
    /\ catalogue = <<>>
    /\ equivalent = <<>>
    /\ outcome = "running"
    /\ exitCode = -1
    /\ module_name = None
    /\ gold_file = NoFile
    /\ gate_file = NoFile
    /\ returncode = 0
    /\ table = <<>>
    /\ loc_string = <<>>
    /\ locs = <<>>
    /\ col4 = <<>>
    /\ NoDiscovery
    /\ NoScripts
    /\ reads = <<>>
    /\ NoHelperCall

\* trace_signal's main has not run.
TracerIdle ==
    /\ loc = NoLoc
    /\ bounded = FALSE
    /\ dump_text = <<>>
    /\ gate_wires = <<>>
    /\ gold_wires = <<>>
    /\ matches = <<>>
    /\ target = NoWire
    /\ candidates = <<>>
    /\ calls = <<>>
    /\ output = <<>>
    /\ results = <<>>
    /\ catalogue = <<>>
    /\ equivalent = <<>>
    /\ outcome = "running"
    /\ exitCode = -1
    /\ module_name = None
    /\ gold_file = NoFile
    /\ gate_file = NoFile
    /\ returncode = 0
    /\ table = <<>>
    /\ NoScripts
    /\ reads = <<>>

ReporterIdle ==
    /\ loc_string = <<>>
    /\ locs = <<>>
    /\ col4 = <<>>

\* sys.exit(1) after an error message, or an exception nobody catches.
Exit(status, how) ==
    /\ pc' = "exit"
    /\ exitCode' = status
    /\ outcome' = how

\* An invocation of the backend: the miter script followed by `cmds`.
Call(kind, cmds) == [kind |-> kind, cmds |-> cmds]

\* ------------------------------------------------------------------ actions

\* main, up to step 1: the arguments and the files are checked, in the
\* order --loc, gold file, gate file, module name.
Preflight ==
    /\ pc = "start"
    /\ \E b \in BOOLEAN : bounded' = b
    /\ \E l \in Locs \cup {NoLoc}, gold \in GoldFiles, gate \in GateFiles,
          module \in ModuleArgs :
          /\ IF l = NoLoc
             THEN /\ Exit(1, "invalid_loc")
                  /\ UNCHANGED <<loc, gold_file, gate_file, module_name>>
             ELSE /\ loc' = l
                  /\ gold_file' = gold
                  /\ gate_file' = gate
                  /\ IF ~gold.exists
                     THEN Exit(1, "gold_not_found") /\ UNCHANGED module_name
                     ELSE IF ~gate.exists
                     THEN Exit(1, "gate_not_found") /\ UNCHANGED module_name
                     ELSE /\ module_name' = IF module # None THEN module
                                            ELSE DetectModuleName(gold)
                          /\ IF module_name' = None
                             THEN Exit(1, "module_not_detected")
                             ELSE /\ pc' = "step1"
                                  /\ UNCHANGED <<outcome, exitCode>>
    /\ UNCHANGED reads
    /\ UNCHANGED << dump_text, gate_wires, gold_wires, matches, target,
                    candidates, calls, output, results, catalogue, equivalent,
                    returncode, table >>
    /\ UNCHANGED <<loc_string, locs, col4>>
    /\ UNCHANGED discoveryVars
    /\ UNCHANGED scriptVars
    /\ UNCHANGED helperVars

\* Step 1, run_yosys_dump: the backend prints a dump.
DumpReturns ==
    /\ pc = "step1"
    /\ calls' = Append(calls, Call("dump", <<>>))
    /\ IF BuildOk(GenerateMiterScript(gold_file, gate_file, module_name))
       THEN /\ \E d \in Dumps : dump_text' = d
            /\ returncode' = 0
       ELSE /\ dump_text' = <<>>
            /\ returncode' = 1
    /\ pc' = "step2"
    /\ UNCHANGED <<module_name, gold_file, gate_file, table>>
    /\ UNCHANGED << loc, bounded, gate_wires, gold_wires, matches, target,
                    candidates, output, results, catalogue, equivalent,
                    outcome, exitCode >>
    /\ UNCHANGED <<loc_string, locs, col4>>
    /\ UNCHANGED discoveryVars
    /\ UNCHANGED scriptVars
    /\ UNCHANGED helperVars
    /\ reads' = reads \o ScriptReads("dump", gold_file, gate_file)

\* Step 1, run_yosys_dump: the backend runs out of time, main does not catch
\* TimeoutExpired.
DumpTimeout ==
    /\ pc = "step1"
    /\ calls' = Append(calls, Call("dump", <<>>))
    /\ Exit(1, "TimeoutExpired")
    /\ UNCHANGED << loc, bounded, dump_text, gate_wires, gold_wires, matches,
                    target, candidates, output, results, catalogue,
                    equivalent >>
    /\ UNCHANGED <<module_name, gold_file, gate_file, returncode, table>>
    /\ UNCHANGED <<loc_string, locs, col4>>
    /\ UNCHANGED discoveryVars
    /\ UNCHANGED scriptVars
    /\ UNCHANGED helperVars
    /\ reads' = reads \o ScriptReads("dump", gold_file, gate_file)

\* Step 2, parse_dump.
ParseStep ==
    /\ pc = "step2"
    /\ LET tables == ParseDump(dump_text, GateAbs, GoldAbs)
       IN /\ gate_wires' = tables.gate
          /\ gold_wires' = tables.gold
    /\ pc' = "step3"
    /\ UNCHANGED << loc, bounded, dump_text, matches, target, candidates,
                    calls, output, results, catalogue, equivalent, outcome,
                    exitCode >>
    /\ UNCHANGED <<module_name, gold_file, gate_file, returncode, table>>
    /\ UNCHANGED <<loc_string, locs, col4>>
    /\ UNCHANGED discoveryVars
    /\ UNCHANGED scriptVars
    /\ UNCHANGED helperVars
    /\ UNCHANGED reads

\* Step 3 without its sys.exit(1): after the listing main goes on to step 4
\* with no target.
ResolveStepFallsThrough ==
    /\ pc = "step3"
    /\ LET found == FindGateTarget(gate_wires, GateAbs, loc.line,
                                   loc.start_col, loc.end_col)
       IN /\ matches' = found
          /\ IF found = <<>>
             THEN /\ catalogue' = Catalogue(gate_wires)
                  /\ UNCHANGED target
             ELSE /\ target' = found[1]
                  /\ UNCHANGED catalogue
    /\ pc' = "step4"
    /\ UNCHANGED << loc, bounded, dump_text, gate_wires, gold_wires,
                    candidates, calls, output, results, equivalent, outcome,
                    exitCode >>
    /\ UNCHANGED <<module_name, gold_file, gate_file, returncode, table>>
    /\ UNCHANGED <<loc_string, locs, col4>>
    /\ UNCHANGED discoveryVars
    /\ UNCHANGED scriptVars
    /\ UNCHANGED helperVars
    /\ UNCHANGED reads

\* Step 3, find_gate_target: no match prints the catalogue and exits,
\* otherwise the target is matches[0].
ResolveStep ==
    /\ pc = "step3"
    /\ LET found == FindGateTarget(gate_wires, GateAbs, loc.line,
                                   loc.start_col, loc.end_col)
       IN /\ matches' = found
          /\ IF found = <<>>
             THEN /\ catalogue' = Catalogue(gate_wires)
                  /\ Exit(1, "no_signal_found")
                  /\ UNCHANGED target
             ELSE /\ target' = found[1]
                  /\ pc' = "step4"
                  /\ UNCHANGED <<catalogue, outcome, exitCode>>
    /\ UNCHANGED << loc, bounded, dump_text, gate_wires, gold_wires,
                    candidates, calls, output, results, equivalent >>
    /\ UNCHANGED <<module_name, gold_file, gate_file, returncode, table>>
    /\ UNCHANGED <<loc_string, locs, col4>>
    /\ UNCHANGED discoveryVars
    /\ UNCHANGED scriptVars
    /\ UNCHANGED helperVars
    /\ UNCHANGED reads

\* Step 4: filter_gold_candidates, then the width match; no candidate exits.
FilterStep ==
    /\ pc = "step4"
    /\ LET cands == WidthMatch(FilterGoldCandidates(gold_wires), target.width)
       IN /\ candidates' = cands
          /\ IF cands = <<>>
             THEN Exit(1, "no_candidates")
             ELSE pc' = "step5" /\ UNCHANGED <<outcome, exitCode>>
    /\ UNCHANGED << loc, bounded, dump_text, gate_wires, gold_wires, matches,
                    target, calls, output, results, catalogue, equivalent >>
    /\ UNCHANGED <<module_name, gold_file, gate_file, returncode, table>>
    /\ UNCHANGED <<loc_string, locs, col4>>
    /\ UNCHANGED discoveryVars
    /\ UNCHANGED scriptVars
    /\ UNCHANGED helperVars
    /\ UNCHANGED reads

\* Step 5, run_proofs: the script is run and the output is read back.
ProofsReturn ==
    /\ pc = "step5"
    /\ calls' = Append(calls,
                  Call("proof", ProofCommands(target.name, candidates, bounded)))
    /\ \E rc \in IF BuildOk(GenerateMiterScript(gold_file, gate_file,
                                                 module_name))
                 THEN {0, 1} ELSE {1} :
          /\ returncode' = rc
          /\ \E text \in IF rc = 0 THEN Outputs ELSE ErrorOutputs :
                /\ output' = text
                /\ results' = ParseResults(text, candidates)
    /\ pc' = "step6"
    /\ UNCHANGED << loc, bounded, dump_text, gate_wires, gold_wires, matches,
                    target, candidates, catalogue, equivalent, outcome,
                    exitCode >>
    /\ UNCHANGED <<module_name, gold_file, gate_file, table>>
    /\ UNCHANGED <<loc_string, locs, col4>>
    /\ UNCHANGED discoveryVars
    /\ UNCHANGED scriptVars
    /\ UNCHANGED helperVars
    /\ reads' = reads \o ScriptReads("proof", gold_file, gate_file)

\* Step 5 with TimeoutExpired caught in run_proofs: what the backend had
\* printed before it was killed is parsed and returned.
ProofsTimeoutPartial ==
    /\ pc = "step5"
    /\ calls' = Append(calls,
                  Call("proof", ProofCommands(target.name, candidates, bounded)))
    /\ returncode' = 1
    /\ \E text \in Outputs :
          /\ output' = text
          /\ results' = ParseResults(text, candidates)
    /\ outcome' = "TimeoutExpired"
    /\ pc' = "step6"
    /\ UNCHANGED << loc, bounded, dump_text, gate_wires, gold_wires, matches,
                    target, candidates, catalogue, equivalent, exitCode >>
    /\ UNCHANGED <<module_name, gold_file, gate_file, table>>
    /\ UNCHANGED <<loc_string, locs, col4>>
    /\ UNCHANGED discoveryVars
    /\ UNCHANGED scriptVars
    /\ UNCHANGED helperVars
    /\ reads' = reads \o ScriptReads("proof", gold_file, gate_file)

\* Step 5, run_proofs: the backend runs out of time; TimeoutExpired leaves
\* run_proofs and main.
ProofsTimeout ==
    /\ pc = "step5"
    /\ calls' = Append(calls,
                  Call("proof", ProofCommands(target.name, candidates, bounded)))
    /\ Exit(1, "TimeoutExpired")
    /\ UNCHANGED << loc, bounded, dump_text, gate_wires, gold_wires, matches,
                    target, candidates, output, results, catalogue,
                    equivalent >>
    /\ UNCHANGED <<module_name, gold_file, gate_file, returncode, table>>
    /\ UNCHANGED <<loc_string, locs, col4>>
    /\ UNCHANGED discoveryVars
    /\ UNCHANGED scriptVars
    /\ UNCHANGED helperVars
    /\ reads' = reads \o ScriptReads("proof", gold_file, gate_file)

\* Step 6: the results table and the summary; main returns.
Report ==
    /\ pc = "step6"
    /\ equivalent' = Equivalent(results)
    /\ \E text \in GoldTexts : table' = ResultsTable(Equivalent(results), text)
    /\ Exit(0, "reported")
    /\ UNCHANGED <<module_name, gold_file, gate_file, returncode>>
    /\ UNCHANGED << loc, bounded, dump_text, gate_wires, gold_wires, matches,
                    target, candidates, calls, output, results, catalogue >>
    /\ UNCHANGED <<loc_string, locs, col4>>
    /\ UNCHANGED discoveryVars
    /\ UNCHANGED scriptVars
    /\ UNCHANGED helperVars
    /\ reads' = Append(reads, FileRead("report", "gold", gold_file))

Next ==
    \/ Preflight
    \/ DumpReturns
    \/ DumpTimeout
    \/ ParseStep
    \/ ResolveStep
    \/ FilterStep
    \/ ProofsReturn
    \/ ProofsTimeout
    \/ Report

Spec == Init /\ [][Next]_vars

\* ------------------------------------- the files change under the tracer

\* Another process rewrites the gold or the gate file between the dump and
\* the proofs; the files are paths that every step opens again. One rewrite
\* in a run.
FileModified ==
    /\ pc \in {"step2", "step3", "step4", "step5"}
    /\ \A k \in DOMAIN reads :
          reads[k].content = IF reads[k].file = "gold" THEN gold_file
                             ELSE gate_file
    /\ \/ /\ \E gold \in GoldFiles :
               gold.exists /\ gold # gold_file /\ gold_file' = gold
          /\ UNCHANGED gate_file
       \/ /\ \E gate \in GateFiles :
               gate.exists /\ gate # gate_file /\ gate_file' = gate
          /\ UNCHANGED gold_file
    /\ UNCHANGED << pc, loc, bounded, dump_text, gate_wires, gold_wires,
                    matches, target, candidates, calls, output, results,
                    catalogue, equivalent, outcome, exitCode, module_name,
                    returncode, table, reads >>
    /\ UNCHANGED <<reporterVars, discoveryVars, scriptVars, helperVars>>

SpecSnapshot == Init /\ [][Next \/ FileModified]_vars

\* ------------------------------------------- step 4 on a wider gold table

\* Gold wire declarations of every kind the candidate filter tells apart:
\* tagged and untagged, kept and skipped.
GoldDecl(src_line, hdl, name, width) ==
    << SrcLine(SrcAttr(GoldAbs, src_line, 1, 5)) >>
        \o (IF hdl = None THEN <<>> ELSE << HdlLine(<<"gold ">> \o hdl) >>)
        \o << WireLine(name, width) >>

GoldBlocks ==
    << GoldDecl(3, <<"x">>, <<"\\", "gold.", "x">>, 8),
       GoldDecl(5, <<"v">>, <<"\\", "gold.", "v">>, 0),
       GoldDecl(6, None, <<"\\", "u">>, 8),
       GoldDecl(8, None, <<"\\", "io_", "a">>, 8),
       GoldDecl(9, None, <<"\\", "clock">>, 0),
       GoldDecl(9, <<"clock">>, <<"\\", "gold.", "clock">>, 0),
       GoldDecl(10, <<"reset">>, <<"\\", "gold.", "reset">>, 0),
       GoldDecl(11, <<"io_", "b">>, <<"\\", "gold.", "io_", "b">>, 8),
       GoldDecl(12, None, <<"$auto$", "clk2fflogic", "$", "1">>, 8),
       GoldDecl(12, None, <<"\\", "in_", "io_", "b">>, 8),
       GoldDecl(12, None, <<"\\", "trigger">>, 0),
       GoldDecl(12, None, <<"\\", "gold_", "io_", "c">>, 8),
       GoldDecl(12, None, <<"\\", "gate_", "io_", "c">>, 8),
       GoldDecl(13, None, <<"$procmux$", "7", "_Y">>, 8),
       GoldDecl(13, None, <<"$auto$", "rtlil.cc", "$", "2">>, 8),
       GoldDecl(14, None, <<"$0", "\\", "r">>, 8) >>

\* One gate wire at line 2 followed by up to MaxGold gold declarations.
FilterDumps ==
    { g \o Flatten([i \in 1..Len(c) |-> GoldBlocks[c[i]]]) :
        g \in {GateTagged, GateUntagged},
        c \in UNION { [1..n -> 1..Len(GoldBlocks)] : n \in 0..MaxGold } }

\* main at step 4, after steps 1 to 3 on a dump of this family.
InitFilter ==
    /\ pc = "step4"
    /\ loc = Loc(2, 1, 3)
    /\ bounded = FALSE
    /\ dump_text \in FilterDumps
    /\ gate_wires = ParseDump(dump_text, GateAbs, GoldAbs).gate
    /\ gold_wires = ParseDump(dump_text, GateAbs, GoldAbs).gold
    /\ matches = FindGateTarget(gate_wires, GateAbs, loc.line, loc.start_col,
                                loc.end_col)
    /\ target = matches[1]
    /\ candidates = <<>>
    /\ calls = << Call("dump", <<>>) >>
    /\ output = <<>>
    /\ results = <<>>
    /\ catalogue = <<>>
    /\ equivalent = <<>>
    /\ outcome = "running"
    /\ exitCode = -1
    /\ module_name = <<"M">>
    /\ gold_file = File(<< <<"M">>, <<"Sub">> >>)
    /\ gate_file = File(<< <<"M">> >>)
    /\ returncode = 0
    /\ table = <<>>
    /\ loc_string = <<>>
    /\ locs = <<>>
    /\ col4 = <<>>
    /\ NoDiscovery
    /\ NoScripts
    /\ NoHelperCall
    /\ reads = ScriptReads("dump", gold_file, gate_file)

SpecFilter == InitFilter /\ [][FilterStep]_vars

\* ------------------------------------- the reporter on any short annotation

\* The items of an annotation: simple and grouped, with one and two digits.
LocItems ==
    << <<":", "2", ":", "5", "7">>,
       <<":", "3", ":", "4">>,
       <<":", "3", ":", "5", "7">>,
       <<":", "5", ":", "{", "4", ",", "5", "7", "}">>,
       <<":", "7", ":", "{", "4", ",", "1", "2", "}">>,
       <<":", "1", "0", ":", "{", "1", "2", ",", "5", "7", "}">> >>

\* file.scala followed by the items, ', ' between them.
LocStrings ==
    { <<"Figure5Example.scala">>
         \o Join([k \in 1..Len(c) |-> LocItems[c[k]]], <<",", " ">>) :
        c \in UNION { [1..n -> 1..Len(LocItems)] : n \in 1..MaxItems } }

\* The reporter has an annotation in hand.
InitLoc ==
    /\ pc = "parse_locs"
    /\ loc_string \in LocStrings
    /\ locs = <<>>
    /\ col4 = <<>>
    /\ loc = NoLoc
    /\ bounded = FALSE
    /\ dump_text = <<>>
    /\ gate_wires = <<>>
    /\ gold_wires = <<>>
    /\ matches = <<>>
    /\ target = NoWire
    /\ candidates = <<>>
    /\ calls = <<>>
    /\ output = <<>>
    /\ results = <<>>
    /\ catalogue = <<>>
    /\ equivalent = <<>>
    /\ outcome = "running"
    /\ exitCode = -1
    /\ module_name = None
    /\ gold_file = NoFile
    /\ gate_file = NoFile
    /\ returncode = 0
    /\ table = <<>>
    /\ NoDiscovery
    /\ NoScripts
    /\ reads = <<>>
    /\ NoHelperCall

\* locs = parse_chisel_locations(chisel_loc)
ParseLocs ==
    /\ pc = "parse_locs"
    /\ locs' = ParseChiselLocations(loc_string)
    /\ pc' = "format_locs"
    /\ UNCHANGED << loc, bounded, dump_text, gate_wires, gold_wires, matches,
                    target, candidates, calls, output, results, catalogue,
                    equivalent, outcome, exitCode, module_name, gold_file,
                    gate_file, returncode, table, loc_string, col4 >>
    /\ UNCHANGED discoveryVars
    /\ UNCHANGED scriptVars
    /\ UNCHANGED helperVars
    /\ UNCHANGED reads

\* The location cell: left empty when no pair was parsed.
FormatStep ==
    /\ pc = "format_locs"
    /\ col4' = IF locs # <<>> THEN FormatLocs(locs) ELSE <<>>
    /\ pc' = "print_row"
    /\ UNCHANGED << loc, bounded, dump_text, gate_wires, gold_wires, matches,
                    target, candidates, calls, output, results, catalogue,
                    equivalent, outcome, exitCode, module_name, gold_file,
                    gate_file, returncode, table, loc_string, locs >>
    /\ UNCHANGED discoveryVars
    /\ UNCHANGED scriptVars
    /\ UNCHANGED helperVars
    /\ UNCHANGED reads

SpecLoc == InitLoc /\ [][ParseLocs \/ FormatStep]_vars

\* ---------------------------------------- the script file of a backend call

\* The names NamedTemporaryFile(suffix='.ys', delete=False) may give.
TmpNames == { <<"/tmp/", n, ".ys">> : n \in {"tmpa", "tmpb"} }

\* os.unlink(script_path)
Unlink(files, path) == files \ {path}

\* What subprocess.run may raise: the backend ran out of time, or could not
\* be started.
RunExceptions == {"TimeoutExpired", "FileNotFoundError"}

\* main after its checks, about to call run_yosys_dump.
InitScripts ==
    /\ pc = "step1"
    /\ loc \in Locs
    /\ bounded \in BOOLEAN
    /\ gold_file \in { f \in GoldFiles : f.exists }
    /\ gate_file \in { f \in GateFiles : f.exists }
    /\ \E module \in ModuleArgs :
          module_name = IF module # None THEN module
                        ELSE DetectModuleName(gold_file)
    /\ module_name # None
    /\ reads = <<>>
    /\ dump_text = <<>>
    /\ gate_wires = <<>>
    /\ gold_wires = <<>>
    /\ matches = <<>>
    /\ target = NoWire
    /\ candidates = <<>>
    /\ calls = <<>>
    /\ output = <<>>
    /\ results = <<>>
    /\ catalogue = <<>>
    /\ equivalent = <<>>
    /\ outcome = "running"
    /\ exitCode = -1
    /\ returncode = 0
    /\ table = <<>>
    /\ ReporterIdle
    /\ NoDiscovery
    /\ NoScripts
    /\ NoHelperCall

\* run_yosys_dump and run_proofs up to subprocess.run: the script is built
\* and written to a new temporary file, and the backend is started on it.
ScriptWritten(step, cmds) ==
    /\ \E path \in TmpNames \ scripts :
          /\ scripts' = scripts \cup {path}
          /\ script_path' = path
    /\ calls' = Append(calls, Call(step, cmds))
    /\ reads' = reads \o ScriptReads(step, gold_file, gate_file)

DumpScriptWritten ==
    /\ pc = "step1"
    /\ ScriptWritten("dump", <<>>)
    /\ pc' = "step1_run"
    /\ UNCHANGED << loc, bounded, dump_text, gate_wires, gold_wires, matches,
                    target, candidates, output, results, catalogue,
                    equivalent, outcome, exitCode, module_name, gold_file,
                    gate_file, returncode, table >>
    /\ UNCHANGED <<reporterVars, discoveryVars, helperVars>>

ProofScriptWritten ==
    /\ pc = "step5"
    /\ ScriptWritten("proof", ProofCommands(target.name, candidates, bounded))
    /\ pc' = "step5_run"
    /\ UNCHANGED << loc, bounded, dump_text, gate_wires, gold_wires, matches,
                    target, candidates, output, results, catalogue,
                    equivalent, outcome, exitCode, module_name, gold_file,
                    gate_file, returncode, table >>
    /\ UNCHANGED <<reporterVars, discoveryVars, helperVars>>

\* The finally clause of both functions.
Finally ==
    /\ scripts' = Unlink(scripts, script_path)
    /\ script_path' = None

\* The finally clause left out: the script file stays.
FinallyNothing ==
    /\ scripts' = scripts
    /\ script_path' = None

\* subprocess.run returns in run_yosys_dump: `return result.stdout` goes
\* through the finally clause.
DumpRunReturns ==
    /\ pc = "step1_run"
    /\ IF BuildOk(GenerateMiterScript(gold_file, gate_file, module_name))
       THEN /\ \E d \in Dumps : dump_text' = d
            /\ returncode' = 0
       ELSE /\ dump_text' = <<>>
            /\ returncode' = 1
    /\ Finally
    /\ pc' = "step2"
    /\ UNCHANGED << loc, bounded, gate_wires, gold_wires, matches, target,
                    candidates, calls, output, results, catalogue, equivalent,
                    outcome, exitCode, module_name, gold_file, gate_file,
                    table, reads >>
    /\ UNCHANGED <<reporterVars, discoveryVars, helperVars>>

\* subprocess.run returns in run_proofs: the finally clause, then the
\* markers are read.
ProofRunReturns ==
    /\ pc = "step5_run"
    /\ \E rc \in IF BuildOk(GenerateMiterScript(gold_file, gate_file,
                                                 module_name))
                 THEN {0, 1} ELSE {1} :
          /\ returncode' = rc
          /\ \E text \in IF rc = 0 THEN Outputs ELSE ErrorOutputs :
                /\ output' = text
                /\ results' = ParseResults(text, candidates)
    /\ Finally
    /\ pc' = "step6"
    /\ UNCHANGED << loc, bounded, dump_text, gate_wires, gold_wires, matches,
                    target, candidates, calls, catalogue, equivalent, outcome,
                    exitCode, module_name, gold_file, gate_file, table,
                    reads >>
    /\ UNCHANGED <<reporterVars, discoveryVars, helperVars>>

\* subprocess.run raises and no finally clause runs.
RunRaisesScriptLeft ==
    /\ pc \in {"step1_run", "step5_run"}
    /\ \E e \in RunExceptions : Exit(1, e)
    /\ FinallyNothing
    /\ UNCHANGED << loc, bounded, dump_text, gate_wires, gold_wires, matches,
                    target, candidates, calls, output, results, catalogue,
                    equivalent, module_name, gold_file, gate_file, returncode,
                    table, reads >>
    /\ UNCHANGED <<reporterVars, discoveryVars, helperVars>>

\* subprocess.run raises in either function: the finally clause runs and the
\* exception leaves the function and main.
RunRaises ==
    /\ pc \in {"step1_run", "step5_run"}
    /\ \E e \in RunExceptions : Exit(1, e)
    /\ Finally
    /\ UNCHANGED << loc, bounded, dump_text, gate_wires, gold_wires, matches,
                    target, candidates, calls, output, results, catalogue,
                    equivalent, module_name, gold_file, gate_file, returncode,
                    table, reads >>
    /\ UNCHANGED <<reporterVars, discoveryVars, helperVars>>

NextScripts ==
    \/ DumpScriptWritten
    \/ DumpRunReturns
    \/ ParseStep
    \/ ResolveStep
    \/ FilterStep
    \/ ProofScriptWritten
    \/ ProofRunReturns
    \/ RunRaises
    \/ Report

SpecScripts == InitScripts /\ [][NextScripts]_vars

\* --------------------------------------- _extract_location on short lines

\* What a line is made of: the comment sign, blanks, brackets, a location,
\* an annotation, a word.
Pieces ==
    << <<"//">>, <<" ">>, <<"@", "[">>, <<"]">>,
       <<"A", ".scala", ":", "4", ":", "2">>,
       <<"@", "[", "B", ".scala", ":", "7", "]">>,
       <<"x">> >>

\* Up to MaxPieces pieces, in any order.
CommentLines ==
    { Flatten([i \in 1..Len(c) |-> Pieces[c[i]]]) :
        c \in UNION { [1..n -> 1..Len(Pieces)] : n \in 0..MaxPieces } }

InitExtract ==
    /\ pc = "extract"
    /\ outcome = "running"
    /\ exitCode = -1
    /\ TracerIdle
    /\ ReporterIdle
    /\ NoDiscovery
    /\ comment_line \in CommentLines
    /\ location = None
    /\ verilog_lines = <<>>
    /\ others = <<>>

\* location = _extract_location(line)
ExtractStep ==
    /\ pc = "extract"
    /\ location' = ExtractLocationText(comment_line)
    /\ pc' = "extracted"
    /\ UNCHANGED << outcome, exitCode, tracerVars, reporterVars,
                    discoveryVars, reads, scriptVars, comment_line,
                    verilog_lines, others >>

SpecExtract == InitExtract /\ [][ExtractStep]_vars

\* ----------------------------------------- get_other_modules on short files

\* Lines of a design file: declarations at the start of a line, indented,
\* with parameters, after an attribute on the same line; a comment that
\* mentions a module; endmodule; a wire.
FileLines ==
    << <<"module", " ", "M", "(">>,
       <<" ", "module", " ", "Sub", " ", "#", "(">>,
       <<"(*", " ", "keep", " ", "*)", " ", "module", " ", "Leaf", "(">>,
       <<"//", " ", "module", " ", "X">>,
       <<"endmodule">>,
       <<" ", "wire", " ", "t", ";">> >>

\* Up to MaxFileLines lines, in any order.
VerilogFiles ==
    UNION { [1..n -> {FileLines[k] : k \in DOMAIN FileLines}] :
              n \in 0..MaxFileLines }

InitModules ==
    /\ pc = "get_other_modules"
    /\ loc = NoLoc
    /\ bounded = FALSE
    /\ dump_text = <<>>
    /\ gate_wires = <<>>
    /\ gold_wires = <<>>
    /\ matches = <<>>
    /\ target = NoWire
    /\ candidates = <<>>
    /\ calls = <<>>
    /\ output = <<>>
    /\ results = <<>>
    /\ catalogue = <<>>
    /\ equivalent = <<>>
    /\ outcome = "running"
    /\ exitCode = -1
    /\ module_name \in { <<"M">>, <<"Sub">>, <<"Leaf">> }
    /\ gold_file = NoFile
    /\ gate_file = NoFile
    /\ returncode = 0
    /\ table = <<>>
    /\ NoScripts
    /\ reads = <<>>
    /\ ReporterIdle
    /\ NoDiscovery
    /\ comment_line = <<>>
    /\ location = None
    /\ verilog_lines \in VerilogFiles
    /\ others = <<>>

\* others = get_other_modules(verilog_file, module_name)
ListStep ==
    /\ pc = "get_other_modules"
    /\ others' = GetOtherModulesLines(verilog_lines, module_name)
    /\ pc' = "listed"
    /\ UNCHANGED << outcome, exitCode, tracerVars, reporterVars,
                    discoveryVars, reads, scriptVars, comment_line,
                    location, verilog_lines >>

SpecModules == InitModules /\ [][ListStep]_vars

\* --------------------------------------------- step 3 on a wider gate table

\* A gate wire declaration with its src attribute.
GateDecl(src, name) ==
    << SrcLine(src), WireLine(<<"\\", "gate.", name>>, 8) >>

\* Gate declarations by what their provenance names: the span 2.1-2.3, a
\* span that starts alike and ends at column 35, the span of line 12, the
\* span 2.1-2.3 of a file whose path ends like the gate file's, and two
\* spans joined by '|'.
GateBlocks ==
    << GateDecl(SrcAttr(GateAbs, 2, 1, 3), "y"),
       GateDecl(SrcAttr(GateAbs, 2, 1, 35), "w"),
       GateDecl(SrcAttr(GateAbs, 12, 1, 3), "k"),
       GateDecl(SrcAttr(<<"/x">> \o GateAbs, 2, 1, 3), "f"),
       GateDecl(SrcAttr(GateAbs, 4, 1, 3) \o <<"|">> \o SrcAttr(GateAbs, 2, 1, 3),
                "t") >>

\* Up to MaxWires gate declarations, in any order.
ResolveDumps ==
    { Flatten([i \in 1..Len(c) |-> GateBlocks[c[i]]]) :
        c \in UNION { [1..n -> 1..Len(GateBlocks)] : n \in 0..MaxWires } }

\* main at step 3, after steps 1 and 2 on a dump of this family.
InitResolve ==
    /\ pc = "step3"
    /\ loc \in {Loc(2, 1, 3), Loc(4, 1, 3)}
    /\ bounded = FALSE
    /\ dump_text \in ResolveDumps
    /\ gate_wires = ParseDump(dump_text, GateAbs, GoldAbs).gate
    /\ gold_wires = ParseDump(dump_text, GateAbs, GoldAbs).gold
    /\ matches = <<>>
    /\ target = NoWire
    /\ candidates = <<>>
    /\ calls = << Call("dump", <<>>) >>
    /\ output = <<>>
    /\ results = <<>>
    /\ catalogue = <<>>
    /\ equivalent = <<>>
    /\ outcome = "running"
    /\ exitCode = -1
    /\ module_name = <<"M">>
    /\ gold_file = File(<< <<"M">>, <<"Sub">> >>)
    /\ gate_file = File(<< <<"M">> >>)
    /\ returncode = 0
    /\ table = <<>>
    /\ ReporterIdle
    /\ NoDiscovery
    /\ NoScripts
    /\ NoHelperCall
    /\ reads = ScriptReads("dump", gold_file, gate_file)

SpecResolve == InitResolve /\ [][ResolveStep]_vars

\* --------------------------------------- find_correspondences' discovery

\* The internal signals of each side: up to MaxSignals of a pool, in any
\* order; the name a is in both pools.
GoldPool == { Signal("a", 8), Signal("b", 8), Signal("n", 1) }
GatePool == { Signal("a", 8), Signal("c", 8), Signal("m", 1) }
SignalLists(pool) ==
    { s \in UNION { [1..n -> pool] : n \in 0..MaxSignals } :
        \A i, j \in DOMAIN s : i # j => s[i] # s[j] }

\* A backend output that proves the added pair, and one that does not.
ProvenOutput == << ObjectsLine(1), ObjectsLine(10), ProvenLine(1) >>
UnprovenOutput ==
    << ObjectsLine(1), ObjectsLine(10), UnprovenAdded, ProvenLine(1) >>

\* What one backend run of the loop may do.
LoopRuns ==
    { Run("returned", ProvenOutput), Run("returned", UnprovenOutput),
      Run("timeout", <<>>), Run("raised", <<>>) }

\* main at step 2, the pair list built.
InitDiscovery ==
    /\ pc = "discover"
    /\ gold_internal \in SignalLists(GoldPool)
    /\ gate_internal \in SignalLists(GatePool)
    /\ matching_width_pairs = MatchingWidthPairs(gold_internal, gate_internal)
    /\ tested = 0
    /\ correspondences = <<>>
    /\ queries = <<>>
    /\ TracerIdle
    /\ ReporterIdle
    /\ NoHelperCall

\* One iteration of the loop with no except clause around test_equivalence:
\* an exception of the backend call ends main.
TestPairAborts ==
    /\ pc = "discover"
    /\ tested < Len(matching_width_pairs)
    /\ tested' = tested + 1
    /\ LET pair == matching_width_pairs[tested + 1]
       IN IF pair.gold_sig = pair.gate_sig
          THEN /\ queries' = Append(queries, Query(pair, NoRun, TRUE))
               /\ correspondences' = Append(correspondences, pair)
               /\ UNCHANGED <<pc, outcome, exitCode>>
          ELSE \E run \in LoopRuns :
                  IF run.how = "raised"
                  THEN /\ queries' = Append(queries, Query(pair, run, FALSE))
                       /\ Exit(1, "Exception")
                       /\ UNCHANGED correspondences
                  ELSE LET result == TestEquivalence(pair.gold_sig,
                                                     pair.gate_sig, run)
                       IN /\ queries' = Append(queries, Query(pair, run, result))
                          /\ correspondences' =
                                IF result THEN Append(correspondences, pair)
                                ELSE correspondences
                          /\ UNCHANGED <<pc, outcome, exitCode>>
    /\ UNCHANGED << loc, bounded, dump_text, gate_wires, gold_wires, matches,
                    target, candidates, calls, output, results, catalogue,
                    equivalent, module_name, gold_file, gate_file, returncode,
                    table, reporterVars, gold_internal, gate_internal,
                    matching_width_pairs, reads, scriptVars,
                    helperVars >>

\* One iteration of the loop: test_equivalence on the next pair; a pair is
\* appended when it returns True, an exception is swallowed.
TestPair ==
    /\ pc = "discover"
    /\ tested < Len(matching_width_pairs)
    /\ tested' = tested + 1
    /\ LET pair == matching_width_pairs[tested + 1]
       IN IF pair.gold_sig = pair.gate_sig
          THEN /\ queries' = Append(queries, Query(pair, NoRun, TRUE))
               /\ correspondences' = Append(correspondences, pair)
          ELSE \E run \in LoopRuns :
                  IF run.how = "raised"
                  THEN /\ queries' = Append(queries, Query(pair, run, FALSE))
                       /\ UNCHANGED correspondences
                  ELSE LET result == TestEquivalence(pair.gold_sig,
                                                     pair.gate_sig, run)
                       IN /\ queries' = Append(queries, Query(pair, run, result))
                          /\ correspondences' =
                                IF result THEN Append(correspondences, pair)
                                ELSE correspondences
    /\ UNCHANGED << pc, outcome, exitCode >>
    /\ UNCHANGED << loc, bounded, dump_text, gate_wires, gold_wires, matches,
                    target, candidates, calls, output, results, catalogue,
                    equivalent, module_name, gold_file, gate_file, returncode,
                    table, reporterVars, gold_internal, gate_internal,
                    matching_width_pairs, reads, scriptVars,
                    helperVars >>

\* Step 3: the correspondences are printed and main returns.
ReportCorrespondences ==
    /\ pc = "discover"
    /\ tested = Len(matching_width_pairs)
    /\ Exit(0, "reported")
    /\ UNCHANGED << loc, bounded, dump_text, gate_wires, gold_wires, matches,
                    target, candidates, calls, output, results, catalogue,
                    equivalent, module_name, gold_file, gate_file, returncode,
                    table, reporterVars, discoveryVars, reads, scriptVars,
                    helperVars >>

SpecDiscovery == InitDiscovery /\ [][TestPair \/ ReportCorrespondences]_vars

\* ------------------------------------------- one call of test_equivalence

\* The lines a backend output of the family is made of.
EquivLines ==
    { ErrorInGold, ErrorInGate, ObjectsLine(0), ObjectsLine(1),
      ObjectsLine(10), UnprovenAdded, ProvenLine(0), ProvenLine(1) }

EquivOutputs == UNION { [1..n -> EquivLines] : n \in 0..MaxEquivLines }

EquivRuns ==
    { Run("timeout", <<>>) } \cup { Run("returned", o) : o \in EquivOutputs }

\* test_equivalence is called on a pair of width-matched signals.
InitTestEquivalence ==
    /\ pc = "test_equivalence"
    /\ gold_internal = << Signal("a", 8) >>
    /\ gate_internal \in { << Signal("a", 8) >>, << Signal("c", 8) >> }
    /\ matching_width_pairs = MatchingWidthPairs(gold_internal, gate_internal)
    /\ tested = 0
    /\ correspondences = <<>>
    /\ queries = <<>>
    /\ TracerIdle
    /\ ReporterIdle
    /\ NoHelperCall

\* The call returns.
TestEquivalenceCall ==
    /\ pc = "test_equivalence"
    /\ LET pair == matching_width_pairs[1]
       IN IF pair.gold_sig = pair.gate_sig
          THEN queries' = << Query(pair, NoRun, TRUE) >>
          ELSE \E run \in EquivRuns :
                  queries' = << Query(pair, run,
                                      TestEquivalence(pair.gold_sig,
                                                      pair.gate_sig, run)) >>
    /\ pc' = "returned"
    /\ UNCHANGED << outcome, exitCode, tracerVars, reporterVars,
                    gold_internal, gate_internal, matching_width_pairs,
                    tested, correspondences, reads, scriptVars,
                    helperVars >>

SpecTestEquivalence == InitTestEquivalence /\ [][TestEquivalenceCall]_vars

\* ------------------------------------------------ step 2 on any short dump

\* The lines parse_dump tells apart.
DumpLines ==
    { SrcLine(SrcAttr(GoldAbs, 3, 1, 5)),
      SrcLine(SrcAttr(GateAbs, 2, 1, 3)),
      SrcLine(SrcAttr(GateAbs, 2, 1, 3) \o <<"|">> \o SrcAttr(GoldAbs, 3, 1, 5)),
      HdlLine(<<"gold ", "x">>),
      HdlLine(<<"gate ", "y">>),
      Line("attribute", <<"\\", "init">>, 0),
      WireLine(<<"\\", "a">>, 8),
      WireLine(<<"\\", "b">>, 0),
      Line("other", <<"cell">>, 0) }

ParseDumpTexts == UNION { [1..n -> DumpLines] : n \in 0..MaxLines }

\* main at step 2, after run_yosys_dump returned a dump of this family.
InitParse ==
    /\ pc = "step2"
    /\ loc = Loc(2, 1, 3)
    /\ bounded = FALSE
    /\ dump_text \in ParseDumpTexts
    /\ gate_wires = <<>>
    /\ gold_wires = <<>>
    /\ matches = <<>>
    /\ target = NoWire
    /\ candidates = <<>>
    /\ calls = << Call("dump", <<>>) >>
    /\ output = <<>>
    /\ results = <<>>
    /\ catalogue = <<>>
    /\ equivalent = <<>>
    /\ outcome = "running"
    /\ exitCode = -1
    /\ module_name = <<"M">>
    /\ gold_file = File(<< <<"M">>, <<"Sub">> >>)
    /\ gate_file = File(<< <<"M">> >>)
    /\ returncode = 0
    /\ table = <<>>
    /\ loc_string = <<>>
    /\ locs = <<>>
    /\ col4 = <<>>
    /\ NoDiscovery
    /\ NoScripts
    /\ NoHelperCall
    /\ reads = ScriptReads("dump", gold_file, gate_file)

SpecParse == InitParse /\ [][ParseStep]_vars

\* ------------------------------------------------------ what the claims read

\* The proof batches handed to the backend so far.
ProofCalls == SelectSeq(calls, LAMBDA c : c.kind = "proof")

\* run_proofs has returned a result list to main.
ProofsReturned == pc = "step6" \/ outcome = "reported"

\* The backend ran out of time during the proof batch.
ProofsTimedOut ==
    /\ outcome = "TimeoutExpired"
    /\ ProofCalls # <<>>

\* The number of marker lines in the output read back.
IsMarker(line) == Contains(line, <<"SUCCESS!">>) \/ Contains(line, <<"FAIL!">>)
MarkerCount == Cardinality({i \in DOMAIN output : IsMarker(output[i])})

\* The key of the requested location, and the gate wires that hold it.
LocKey == SrcAttr(GateAbs, loc.line, loc.start_col, loc.end_col)
KeyMatch(w) == w.src # None /\ Contains(w.src, LocKey)
MatchIdx == {i \in DOMAIN gate_wires : KeyMatch(gate_wires[i])}

\* main has gone through step 3.
Resolved ==
    \/ pc \in {"step4", "step5", "step6"}
    \/ pc = "exit" /\ outcome \in {"no_signal_found", "no_candidates", "reported"}
    \/ ProofsTimedOut

\* main has gone through step 4.
Filtered ==
    \/ pc \in {"step5", "step6"}
    \/ pc = "exit" /\ outcome \in {"no_candidates", "reported"}
    \/ ProofsTimedOut

\* ------------------------------------------------------------------- claims

\* C1: for every candidate list of length N and every backend output,
\* run_proofs returns exactly N results, the i-th for the i-th candidate.
C1_ExactlyNResults ==
    ProofsReturned =>
        /\ Len(results) = Len(candidates)
        /\ \A i \in DOMAIN results : results[i].cand = candidates[i]

\* C2: when the number of markers in the output differs from the number of
\* candidates, run_proofs ends in an integrity error: it returns no result
\* list to main.
C2_MismatchIsIntegrityError ==
    MarkerCount # Len(candidates) => ~ProofsReturned

\* C3: run_proofs appends exactly N proof commands to one script, the k-th
\* naming the k-th candidate and the target, repeated candidates included,
\* and invokes the backend exactly once for it.
C3_OneOrderedBatch ==
    (ProofsReturned \/ ProofsTimedOut) =>
        /\ Len(ProofCalls) = 1
        /\ Len(ProofCalls[1].cmds) = Len(candidates)
        /\ \A k \in DOMAIN candidates :
              /\ ProofCalls[1].cmds[k].prove = candidates[k].name
              /\ ProofCalls[1].cmds[k].against = target.name
              /\ ProofCalls[1].cmds[k].mode =
                    (IF bounded THEN "seq" ELSE "tempinduct")

\* C3 witness: a batch was run for a list that holds the same candidate twice.
C3_Witness ==
    /\ ProofsReturned
    /\ Len(candidates) >= 2
    /\ candidates[1] = candidates[2]

\* C4: when the proof batch times out the run fails with the timeout error,
\* no result list is produced and no candidate is reported as proven.
C4_TimeoutNoPartialCredit ==
    ProofsTimedOut =>
        /\ results = <<>>
        /\ equivalent = <<>>
        /\ pc = "exit"
        /\ exitCode = 1

\* C4 witness: a batch of several candidates timed out.
C4_Witness ==
    /\ ProofsTimedOut
    /\ Len(candidates) >= 2
    /\ pc = "exit"

\* C5: when no gate wire's provenance holds the key of the location, the run
\* ends in the resolution error with a non-zero status; no candidate is
\* filtered and no proof batch is run.
C5_NoMatchStops ==
    (Resolved /\ MatchIdx = {}) =>
        /\ pc = "exit"
        /\ outcome = "no_signal_found"
        /\ exitCode = 1
        /\ candidates = <<>>
        /\ ProofCalls = <<>>
        /\ results = <<>>

\* C5 witness: resolution failed although the gate and gold tables hold wires.
C5_Witness ==
    /\ Resolved
    /\ MatchIdx = {}
    /\ gate_wires # <<>>
    /\ FilterGoldCandidates(gold_wires) # <<>>

\* The gate wires that carry a provenance, and a wire's place among them.
WithSrcIdx == {i \in DOMAIN gate_wires : gate_wires[i].src # None}
SrcRank(i) == Cardinality({j \in WithSrcIdx : j <= i})

\* The text after the last ":" of a provenance.
IsShortOf(short, src) ==
    /\ ~(\E i \in DOMAIN short : short[i] = ":")
    /\ \/ src = short
       \/ \E i \in DOMAIN src :
             src[i] = ":" /\ SubSeq(src, i + 1, Len(src)) = short

\* C6, as claimed: on a resolution failure the catalogue has one entry for
\* every signal of the gate table, and it is not empty.
C6_CatalogueIsWholeGateTable ==
    outcome = "no_signal_found" =>
        /\ Len(catalogue) = Len(gate_wires)
        /\ catalogue # <<>>

\* C6, amended: on a resolution failure the catalogue has one entry, in table
\* order, for every gate signal that has a provenance and none for a signal
\* without one; the entry holds the signal's original name (or its wire name
\* without backslashes), its width and the part of its provenance after the
\* last colon.  It is non-empty exactly when some gate signal has a provenance.
C6_CatalogueListsWiresWithProvenance ==
    outcome = "no_signal_found" =>
        /\ Len(catalogue) = Cardinality(WithSrcIdx)
        /\ \A i \in WithSrcIdx :
              LET row == catalogue[SrcRank(i)]
                  w == gate_wires[i]
              IN /\ row.width = w.width
                 /\ IsShortOf(row.src, w.src)
                 /\ row.name = (IF w.orig # None THEN w.orig
                                ELSE SelectSeq(w.name, LAMBDA t : t # "\\"))

\* C6 witness: resolution failed on a gate table that holds a tagged wire and
\* an untagged wire with provenance and a wire without provenance.
C6_Witness ==
    /\ outcome = "no_signal_found"
    /\ \E i, j, k \in DOMAIN gate_wires :
          /\ gate_wires[i].src = None
          /\ gate_wires[j].src # None /\ gate_wires[j].orig # None
          /\ gate_wires[k].src # None /\ gate_wires[k].orig = None

\* C7: when several gate signals match the location, find_gate_target returns
\* them in table order and the target is the first of them in the table.
C7_FirstMatchInTableOrder ==
    (Resolved /\ MatchIdx # {}) =>
        /\ Len(matches) = Cardinality(MatchIdx)
        /\ \A i \in MatchIdx :
              matches[Cardinality({j \in MatchIdx : j <= i})] = gate_wires[i]
        /\ \E i \in MatchIdx :
              /\ target = gate_wires[i]
              /\ \A j \in MatchIdx : i <= j

\* C7 witness: two different gate wires match and the target is resolved.
C7_Witness ==
    /\ pc = "step4"
    /\ Len(matches) >= 2
    /\ matches[1] # matches[2]

\* C8: every candidate handed to the dispatcher has the target's width, and
\* every gold signal that passes the heuristic exclusions and has that width
\* is handed to it.
C8_WidthMatchedCandidates ==
    (ProofCalls # <<>>) =>
        /\ Len(ProofCalls[1].cmds) = Len(candidates)
        /\ \A k \in DOMAIN candidates : candidates[k].width = target.width
        /\ \A i \in DOMAIN gold_wires :
              (~Skipped(gold_wires[i]) /\ gold_wires[i].width = target.width)
                 => \E k \in DOMAIN candidates :
                       /\ candidates[k] = gold_wires[i]
                       /\ ProofCalls[1].cmds[k].prove = gold_wires[i].name

\* C8 witness: a batch was run while the gold table held a wire that passes
\* the exclusions with another width.
C8_Witness ==
    /\ ProofCalls # <<>>
    /\ \E i \in DOMAIN gold_wires :
          ~Skipped(gold_wires[i]) /\ gold_wires[i].width # target.width

\* A signal's name: its original name when tagged, else its wire name without
\* the leading backslash.
SignalName(w) ==
    IF w.orig # None THEN w.orig
    ELSE IF w.name # <<>> /\ Head(w.name) = "\\" THEN Tail(w.name) ELSE w.name

\* C9: the filter's output holds no clock, reset or io_ signal by that name,
\* and no clk2fflogic, $procmux$, miter or $0\ wire.
C9_NoClockResetPortOrInternal ==
    Filtered =>
        \A k \in DOMAIN candidates :
            LET w == candidates[k]
            IN /\ SignalName(w) # <<"clock">>
               /\ SignalName(w) # <<"reset">>
               /\ ~StartsWith(SignalName(w), <<"io_">>)
               /\ ~Contains(w.name, <<"clk2fflogic">>)
               /\ ~Contains(w.name, <<"$procmux$">>)
               /\ ~StartsWith(w.name, <<"\\", "in_">>)
               /\ ~StartsWith(w.name, <<"\\", "trigger">>)
               /\ ~StartsWith(w.name, <<"\\", "gold_">>)
               /\ ~StartsWith(w.name, <<"\\", "gate_">>)
               /\ ~Contains(w.name, <<"$0", "\\">>)

\* C10: the candidate filter is idempotent: the exclusions followed by the
\* width match, applied to their own output, return it unchanged.
C10_FilterIdempotent ==
    Filtered =>
        WidthMatch(FilterGoldCandidates(candidates), target.width) = candidates

\* C10 witness: the filter kept a wire, dropped one by the exclusions and
\* dropped one by its width.
C10_Witness ==
    /\ Filtered
    /\ candidates # <<>>
    /\ \E i, j \in DOMAIN gold_wires :
          /\ Skipped(gold_wires[i])
          /\ ~Skipped(gold_wires[j]) /\ gold_wires[j].width # target.width

\* a is b with some elements left out, the rest in b's order.
RECURSIVE IsSubseq(_, _)
IsSubseq(a, b) ==
    IF a = <<>> THEN TRUE
    ELSE IF b = <<>> THEN FALSE
    ELSE IF Head(a) = Head(b) THEN IsSubseq(Tail(a), Tail(b))
    ELSE IsSubseq(a, Tail(b))

\* C11: the candidate filter keeps the order of the gold table: its output is
\* a subsequence of the table, with nothing added, repeated or moved.
C11_FilterKeepsTableOrder ==
    Filtered =>
        /\ IsSubseq(candidates, gold_wires)
        /\ \A w \in {candidates[k] : k \in DOMAIN candidates} :
              Cardinality({k \in DOMAIN candidates : candidates[k] = w})
                 <= Cardinality({i \in DOMAIN gold_wires : gold_wires[i] = w})

\* C11 witness: two different wires were kept around one that was dropped.
C11_Witness ==
    /\ Filtered
    /\ Len(candidates) = 2
    /\ Len(gold_wires) = 3
    /\ candidates[1] = gold_wires[1]
    /\ candidates[2] = gold_wires[3]
    /\ candidates[1] # candidates[2]

\* main has gone through step 2.
Parsed == pc = "step3" \/ Resolved

\* The wire declarations of the dump.
WireIdx == {i \in DOMAIN dump_text : dump_text[i].kind = "wire"}

\* Line i is an attribute line.
IsAttrLine(i) == dump_text[i].kind \in {"src", "hdlname", "attribute"}

\* The unbroken run of attribute lines that ends just before line i.
RunBefore(i) == {j \in 1..(i - 1) : \A k \in j..(i - 1) : IsAttrLine(k)}

\* The value of the last attribute of a kind in that run, None when absent.
RunAttr(i, kind) ==
    LET js == {j \in RunBefore(i) : dump_text[j].kind = kind}
    IN IF js = {} THEN None
       ELSE dump_text[CHOOSE j \in js : \A k \in js : k <= j].val

RunTag(i) ==
    IF StartsWith(RunAttr(i, "hdlname"), <<"gold ">>) THEN "gold"
    ELSE IF StartsWith(RunAttr(i, "hdlname"), <<"gate ">>) THEN "gate"
    ELSE "none"

\* The entry a declaration gives when it is kept.
RunEntry(i) ==
    Wire(dump_text[i].val,
         IF dump_text[i].width # 0 THEN dump_text[i].width ELSE 1,
         RunAttr(i, "src"),
         IF RunTag(i) = "none" THEN None ELSE Tail(RunAttr(i, "hdlname")))

\* The side a declaration belongs to: its tag first, else the file its
\* provenance names, the gold file tested first.
Side(i) ==
    IF RunTag(i) # "none" THEN RunTag(i)
    ELSE IF Contains(RunAttr(i, "src"), GoldAbs) /\ RunAttr(i, "src") # None
    THEN "gold"
    ELSE IF Contains(RunAttr(i, "src"), GateAbs) /\ RunAttr(i, "src") # None
    THEN "gate"
    ELSE "none"

AllWires == {gate_wires[k] : k \in DOMAIN gate_wires}
               \cup {gold_wires[k] : k \in DOMAIN gold_wires}

\* C12: the provenance and origin tag recorded for a wire come only from the
\* unbroken run of attribute lines just before its declaration: every table
\* entry is the entry of some declaration with exactly the attributes of that
\* run, and every declaration that is kept appears with them.
C12_AttributesFromUnbrokenRun ==
    Parsed =>
        /\ \A w \in AllWires : \E i \in WireIdx : w = RunEntry(i)
        /\ \A i \in WireIdx : Side(i) # "none" => RunEntry(i) \in AllWires

\* C12 witness: a provenance attribute, then a line that is neither an
\* attribute nor a declaration, then a declaration that got no provenance.
C12_Witness ==
    /\ pc = "step3"
    /\ \E i \in WireIdx :
          /\ i >= 3
          /\ dump_text[i - 1].kind = "other"
          /\ dump_text[i - 2].kind = "src"
          /\ RunAttr(i, "src") = None
          /\ \A w \in AllWires : w.name # dump_text[i].val

\* The declarations of a side, and a declaration's place among them.
SideIdx(side) == {i \in WireIdx : Side(i) = side}
SideRank(side, i) == Cardinality({j \in SideIdx(side) : j <= i})

\* C13: an origin tag decides the table whatever the provenance path says;
\* only an untagged wire is placed by its provenance, gold path first.
C13_TagBeforePath ==
    Parsed =>
        /\ Len(gold_wires) = Cardinality(SideIdx("gold"))
        /\ Len(gate_wires) = Cardinality(SideIdx("gate"))
        /\ \A i \in SideIdx("gold") :
              gold_wires[SideRank("gold", i)].name = dump_text[i].val
        /\ \A i \in SideIdx("gate") :
              gate_wires[SideRank("gate", i)].name = dump_text[i].val

\* C13 witness: a wire tagged gold whose provenance names the gate file alone
\* is in the gold table.
C13_Witness ==
    /\ pc = "step3"
    /\ \E k \in DOMAIN gold_wires :
          /\ gold_wires[k].orig # None
          /\ Contains(gold_wires[k].src, GateAbs)
          /\ ~Contains(gold_wires[k].src, GoldAbs)

\* C14, as claimed: no wire declaration is lost: every declaration of the
\* dump is kept in one of the two tables.
C14_NoDeclarationLost ==
    Parsed => Len(gate_wires) + Len(gold_wires) = Cardinality(WireIdx)

\* C14, amended: a declaration tagged gold or gate is kept whether or not it
\* has a provenance, and an untagged declaration is kept when its provenance
\* names the gold or the gate file; a declaration with neither a tag nor such
\* a provenance is in no table.
C14_KeptWhenTaggedOrInAFile ==
    Parsed =>
        /\ Len(gate_wires) + Len(gold_wires) =
              Cardinality({i \in WireIdx :
                  \/ RunTag(i) # "none"
                  \/ Contains(RunAttr(i, "src"), GoldAbs)
                  \/ Contains(RunAttr(i, "src"), GateAbs)})
        /\ \A i \in WireIdx :
              (RunTag(i) # "none" /\ RunAttr(i, "src") = None) =>
                 \E w \in AllWires :
                    w.name = dump_text[i].val /\ w.src = None /\ w.orig # None
        /\ \A i \in WireIdx :
              (RunTag(i) = "none" /\ Side(i) # "none") =>
                 \E w \in AllWires :
                    w.name = dump_text[i].val /\ w.src # None /\ w.orig = None

\* C14 witness: a tagged wire without provenance is kept and a wire with
\* neither a tag nor a provenance is dropped.
C14_Witness ==
    /\ pc = "step3"
    /\ \E w \in AllWires : w.src = None /\ w.orig # None
    /\ \E i \in WireIdx :
          /\ RunTag(i) = "none"
          /\ RunAttr(i, "src") = None
          /\ \A w \in AllWires : w.name # dump_text[i].val

\* C15, as claimed: no client-facing source-attribution listing has an entry
\* for a signal without provenance: the results table has no row without a
\* source annotation and the gate catalogue has no row without a provenance.
C15_NoEntryWithoutProvenance ==
    /\ \A k \in DOMAIN table : table[k].loc_short # <<"N/A">>
    /\ \A k \in DOMAIN catalogue : catalogue[k].src # None

\* The miter script main had run_yosys_dump build.
MiterScript == GenerateMiterScript(gold_file, gate_file, module_name)

\* main has called run_yosys_dump.
DumpCalled == calls # <<>>

\* C16, as claimed: the exit status is non-zero when target resolution fails,
\* when no width-matched candidate is left, when the backend times out and
\* when a backend run ends in an error; it is 0 when a correspondence is
\* proven by a run that ended without error.
C16_ExitStatusTellsFailure ==
    pc = "exit" =>
        /\ outcome = "no_signal_found" => exitCode # 0
        /\ outcome = "no_candidates" => exitCode # 0
        /\ outcome = "TimeoutExpired" => exitCode # 0
        /\ (DumpCalled /\ returncode # 0) => exitCode # 0
        /\ (equivalent # <<>> /\ returncode = 0) => exitCode = 0

\* The module main settled on is declared in the design.
Declares(verilog_file) ==
    \E k \in DOMAIN verilog_file.modules : verilog_file.modules[k] = module_name

\* C17, as claimed: a missing gold file, a missing gate file or a module that
\* is found in neither design ends the run with an error before any backend
\* invocation.
C17_PreflightBeforeBackend ==
    (/\ pc # "start"
     /\ \/ ~gold_file.exists
        \/ ~gate_file.exists
        \/ ~Declares(gold_file)
        \/ ~Declares(gate_file))
        => /\ pc = "exit"
           /\ exitCode = 1
           /\ calls = <<>>

\* C18, as claimed: when a design is not left with exactly one top module,
\* building the miter ends the run with an error: main never goes on to parse
\* the dump, resolve the target or report.
C18_BuildFailsLoudly ==
    (DumpCalled /\ ~BuildOk(MiterScript)) =>
        /\ pc = "exit"
        /\ outcome \notin {"no_signal_found", "no_candidates", "reported"}

\* The pairs a text holds: for every ':L:c' the pair (L, c) with the whole
\* column, and for every ':L:{c1,...,ck}' the pairs (L, c1) ... (L, ck).
StartsItem(text, i) ==
    /\ At(text, i) = ":"
    /\ RunLen(text, i + 1, Digit) >= 1
    /\ At(text, i + 1 + RunLen(text, i + 1, Digit)) = ":"

ItemLine(text, i) == ToInt(SubSeq(text, i + 1, i + RunLen(text, i + 1, Digit)))

\* The position of the first character after ':L:'.
ItemBody(text, i) == i + 2 + RunLen(text, i + 1, Digit)

\* A whole column starts at position j.
WholeColumnAt(text, j) == IsDigit(At(text, j)) /\ ~IsDigit(At(text, j - 1))

ColumnAt(text, j) == ToInt(SubSeq(text, j, j + RunLen(text, j, Digit) - 1))

PairsHeld(text) ==
    UNION { LET b == ItemBody(text, i)
            IN IF IsDigit(At(text, b)) THEN { Pair(ItemLine(text, i), ColumnAt(text, b)) }
               ELSE IF At(text, b) = "{"
               THEN { Pair(ItemLine(text, i), ColumnAt(text, j)) :
                        j \in { j \in (b + 1)..(b + RunLen(text, b + 1, DigitOrComma)) :
                                WholeColumnAt(text, j) } }
               ELSE {}
          : i \in { i \in DOMAIN text : StartsItem(text, i) } }

PairsOf(pairs) == {pairs[k] : k \in DOMAIN pairs}

LocsParsed == pc \in {"format_locs", "print_row"}

\* C19, as claimed: parse_chisel_locations returns exactly the (line, column)
\* pairs written in the annotation, simple and grouped items mixed: none is
\* missing, altered or invented.
C19_ExactlyThePairsWritten ==
    LocsParsed => PairsOf(locs) = PairsHeld(loc_string)

\* C20, as claimed: parsing an annotation and rendering the pairs again with
\* the reporter's per-line grouping gives a text that holds the same set of
\* (line, column) pairs as the annotation.
C20_RoundTripKeepsPairs ==
    pc = "print_row" => PairsHeld(col4) = PairsHeld(loc_string)

\* C21, as claimed: for several parsed locations the location cell holds
\* every parsed (line, column) pair, whatever the number of distinct lines.
C21_CellShowsEveryPair ==
    (pc = "print_row" /\ Len(locs) > 1) => PairsHeld(col4) = PairsOf(locs)

\* The backend run of a query ended without a verdict for the pair.
QueryFailed(q) == q.run.how \in {"timeout", "raised"}

\* The pairs whose query returned True, in the order of the pair list.
ProvenPairs ==
    LET idx == {k \in DOMAIN queries : queries[k].result}
    IN [r \in 1..Cardinality(idx) |->
          matching_width_pairs[CHOOSE k \in idx :
                                  Cardinality({j \in idx : j <= k}) = r]]

\* C22: a failed or timed-out query is recorded as not proven and never
\* aborts the discovery loop: queries are made for the pairs in order, the
\* run ends only after every pair of the list was tested, and what is reported
\* is exactly the pairs proven, those before and after a failure included.
C22_FailedQueryNeverAborts ==
    /\ Len(queries) = tested
    /\ \A k \in DOMAIN queries :
          /\ k <= Len(matching_width_pairs)
          /\ queries[k].gold_sig = matching_width_pairs[k].gold_sig
          /\ queries[k].gate_sig = matching_width_pairs[k].gate_sig
          /\ QueryFailed(queries[k]) => ~queries[k].result
    /\ correspondences = ProvenPairs
    /\ pc = "exit" =>
          /\ tested = Len(matching_width_pairs)
          /\ exitCode = 0

\* C22 witness: the run has ended; the second of three queries timed out or
\* raised, and the pairs proven before and after it are reported.
C22_Witness ==
    /\ pc = "exit"
    /\ Len(queries) = 3
    /\ queries[1].result
    /\ QueryFailed(queries[2])
    /\ queries[3].result
    /\ queries[3].run.how = "returned"
    /\ correspondences = << matching_width_pairs[1], matching_width_pairs[3] >>

\* C23, as claimed: a pair is reported only if a backend run for that very
\* pair returned an output that proves it.
C23_OnlyProvenByARun ==
    \A k \in DOMAIN queries :
        queries[k].result =>
            /\ queries[k].run.how = "returned"
            /\ OutputProves(queries[k].run.output)

\* The lines of an output that report an object count or a proven-cell count.
IsObjectsLine(line) ==
    /\ Len(line) >= 2
    /\ line[Len(line)] = " objects"
    /\ \A k \in 1..(Len(line) - 1) : IsDigit(line[k])
ObjectsIdx(text) == {k \in DOMAIN text : IsObjectsLine(text[k])}
ObjectsValue(line) == ToInt(SubSeq(line, 1, Len(line) - 1))

IsProvenLine(line) ==
    /\ Len(line) >= 3
    /\ line[1] = "Of those cells "
    /\ line[Len(line)] = " are proven"
    /\ \A k \in 2..(Len(line) - 1) : IsDigit(line[k])
ProvenIdx(text) == {k \in DOMAIN text : IsProvenLine(text[k])}
ProvenValue(line) == ToInt(SubSeq(line, 2, Len(line) - 1))

\* The least and the second least member of a set of positions.
First(idx) == CHOOSE k \in idx : \A j \in idx : k <= j
Second(idx) == First(idx \ {First(idx)})

\* C30: for two differently named signals test_equivalence returns True only
\* on an output with no 'Error in gold/gate signal' text, with two object
\* counts of which the second is greater than the first, with no unproven
\* added cell and with a reported proven-cell count above zero; a timeout
\* gives False.
C30_TrueOnlyOnProvenOutput ==
    \A k \in DOMAIN queries :
        LET q == queries[k]
            out == q.run.output
        IN (pc = "returned" /\ q.gold_sig # q.gate_sig) =>
              /\ q.run.how = "timeout" => ~q.result
              /\ q.result =>
                    /\ q.run.how = "returned"
                    /\ \A i \in DOMAIN out :
                          out[i] \notin {ErrorInGold, ErrorInGate, UnprovenAdded}
                    /\ Cardinality(ObjectsIdx(out)) >= 2
                    /\ ObjectsValue(out[Second(ObjectsIdx(out))])
                          > ObjectsValue(out[First(ObjectsIdx(out))])
                    /\ ProvenIdx(out) # {}
                    /\ ProvenValue(out[First(ProvenIdx(out))]) > 0

\* C30 witness: True was returned for two differently named signals.
C30_Witness ==
    /\ pc = "returned"
    /\ queries[1].gold_sig # queries[1].gate_sig
    /\ queries[1].result
    /\ Len(queries[1].run.output) = 4

\* The position in the output of the k-th marker line.
MarkerIdx == {i \in DOMAIN output : IsMarker(output[i])}
KthMarker(k) ==
    CHOOSE i \in MarkerIdx : Cardinality({j \in MarkerIdx : j <= i}) = k

\* C27: the k-th marker line of the output is attributed to the k-th
\* candidate and to no other: the k-th result is for candidates[k], it says
\* passed exactly when the k-th marker line holds SUCCESS!, and there is one
\* result for each marker that has a candidate at its position.
C27_MarkersZippedInOrder ==
    ProofsReturned =>
        /\ Len(results) = IF MarkerCount < Len(candidates) THEN MarkerCount
                          ELSE Len(candidates)
        /\ \A k \in DOMAIN results :
              /\ results[k].cand = candidates[k]
              /\ results[k].passed = Contains(output[KthMarker(k)], <<"SUCCESS!">>)

\* C27 witness: a FAIL! line then a SUCCESS! line, read back for two
\* different candidates.
C27_Witness ==
    /\ ProofsReturned
    /\ Len(candidates) >= 2
    /\ candidates[1] # candidates[2]
    /\ Len(results) = 2
    /\ ~results[1].passed
    /\ results[2].passed

\* The spans a provenance names, '|' between them.
RECURSIVE SplitOn(_, _, _)
SplitOn(text, sep, cur) ==
    IF text = <<>> THEN {cur}
    ELSE IF Head(text) = sep THEN {cur} \cup SplitOn(Tail(text), sep, <<>>)
    ELSE SplitOn(Tail(text), sep, Append(cur, Head(text)))

NamesRequestedSpan(w) == w.src # None /\ LocKey \in SplitOn(w.src, "|", <<>>)

\* C28, as claimed: find_gate_target returns a gate signal only if its
\* provenance names exactly the requested span: the gate file, the line, the
\* start column and the end column of the request.
C28_OnlyTheRequestedSpan ==
    \A k \in DOMAIN matches : NamesRequestedSpan(matches[k])

\* C24, as claimed: within one invocation every step that uses the gold or
\* the gate file works on the same content of it, also when another process
\* modifies the file during the run: the circuit of the proof script is the
\* circuit the dump was taken from.
C24_OneSnapshotPerFile ==
    \A i, j \in DOMAIN reads :
        reads[i].file = reads[j].file => reads[i].content = reads[j].content

\* A backend call is under way.
BackendRunning == pc \in {"step1_run", "step5_run"}

Bracketed(text, i, j) ==
    /\ i + 2 < j
    /\ text[i] = "@"
    /\ text[i + 1] = "["
    /\ text[j] = "]"
    /\ \A k \in (i + 2)..(j - 1) : text[k] # "]"
HasBracketed(text) == \E i, j \in DOMAIN text : Bracketed(text, i, j)

\* A trailing comment from position i on that names a .scala location.
TrailingForm(text, i) ==
    /\ text[i] = "//"
    /\ \E p \in (i + 2)..Len(text) : ScalaColonDigitAt(text, p)
HasTrailing(text) == \E i \in DOMAIN text : TrailingForm(text, i)

\* C25: _extract_location returns the text inside the first @[...] of the
\* line whenever there is one, also when the line matches the
\* trailing-comment form; the trailing comment's location only when no
\* @[...] is present; and None when neither form is.
C25_BracketedFormFirst ==
    pc = "extracted" =>
        IF HasBracketed(comment_line)
        THEN \E i, j \in DOMAIN comment_line :
                /\ Bracketed(comment_line, i, j)
                /\ \A h \in 1..(i - 1), k \in DOMAIN comment_line :
                      ~Bracketed(comment_line, h, k)
                /\ location = SubSeq(comment_line, i + 2, j - 1)
        ELSE IF HasTrailing(comment_line)
        THEN \E i \in DOMAIN comment_line :
                /\ TrailingForm(comment_line, i)
                /\ location # None
                /\ location = Strip(SubSeq(comment_line, i + 1,
                                           Len(comment_line)))
        ELSE location = None

\* A line of both forms: the comment `// ... @[B.scala:7]`.
C25_Witness ==
    /\ pc = "extracted"
    /\ HasBracketed(comment_line)
    /\ HasTrailing(comment_line)
    /\ location = <<"B", ".scala", ":", "7">>

\* The module names a line declares from position i on: the keyword
\* `module` outside a comment, blanks, a name.
RECURSIVE LineDeclares(_, _)
LineDeclares(text, i) ==
    IF i > Len(text) \/ text[i] = "//" THEN <<>>
    ELSE LET w == RunLen(text, i + 1, {" ", "\t"})
         IN IF /\ text[i] = "module"
               /\ w >= 1
               /\ At(text, i + 1 + w) \in WordTokens
            THEN << << At(text, i + 1 + w) >> >> \o LineDeclares(text, i + 2 + w)
            ELSE LineDeclares(text, i + 1)

\* The module names a file declares, in declaration order.
RECURSIVE Declared(_)
Declared(lines) ==
    IF lines = <<>> THEN <<>>
    ELSE LineDeclares(Head(lines), 1) \o Declared(Tail(lines))

\* C26, as claimed: get_other_modules returns every module name declared in
\* the file other than target, in declaration order, and never target, so
\* that deleting what it returns leaves only declarations named target.
C26_EveryOtherDeclaredModule ==
    pc = "listed" =>
        others = SelectSeq(Declared(verilog_lines),
                           LAMBDA name : name # module_name)

====
